---- MODULE Spec2Model ----
(***************************************************************************)
(* State-machine model of the compile orchestrator of MainWindow           *)
(* (src/src/mainwin.cc): the GuiLocker reentrancy guard, compile /         *)
(* waitAfterReload / compileDone / instantiateRoot / compileCSG /          *)
(* cgalRender / actionRenderDone, and the cooperative checkpoints          *)
(* (processEvents) at which other handlers run nested.                     *)
(*                                                                         *)
(* Every C++ member function is an operator from the program state record  *)
(* to the program state record; a handler is the composition of the        *)
(* functions it calls.  A handler that reaches a processEvents checkpoint  *)
(* is cut there: pc names the checkpoint, and the handlers that Qt may     *)
(* dispatch at that point are separate actions guarded by EventsAllowed.   *)
(***************************************************************************)
EXTENDS Integers, Sequences, FiniteSets, TLC

(* ------------------------------ bounds -------------------------------- *)
\* the active file takes the ids 1..MaxFile on disk, one after the other
MaxFile == 2
\* the included / used files take the timestamps 0..MaxTime, one after the other
MaxTime == 1
\* number of zero-delay single-shot timers for actionRenderPreview that may be pending
MaxShots == 1
\* number of waitAfterReload ticks followed that start the timer again although the
\* timestamp they saw was not newer
MaxPolls == 2

(* ------------------------ unsigned int counter ------------------------ *)
\* GuiLocker::gui_locked is an unsigned int (32 bit); it is kept as two 16-bit limbs
\* <<high, low>> so that ++ and -- wrap exactly as the machine type does.
LimbRange == 65536

U32Zero == <<0, 0>>
U32One == <<0, 1>>
U32Max == <<LimbRange - 1, LimbRange - 1>>

U32Inc(x) ==
  IF x[2] + 1 < LimbRange THEN <<x[1], x[2] + 1>>
  ELSE <<(x[1] + 1) % LimbRange, 0>>

U32Dec(x) ==
  IF x[2] > 0 THEN <<x[1], x[2] - 1>>
  ELSE <<(x[1] + LimbRange - 1) % LimbRange, LimbRange - 1>>

\* 2 * x in unsigned int: the int 2 is converted to unsigned int and the product is
\* taken modulo 2^32
U32Twice(x) ==
  LET lo == 2 * x[2]
      hi == 2 * x[1] + (lo \div LimbRange)
  IN <<hi % LimbRange, lo % LimbRange>>

\* an unsigned int converted to size_t (64 bit, of which three limbs are kept)
SizeOfU32(x) == <<0, x[1], x[2]>>

(* ------------------------------ state --------------------------------- *)
\* st  : the program state (MainWindow fields, globals, timers, worker, control position)
\* env : the world outside the program (files on disk, preferences)
VARIABLES st, env

vars == <<st, env>>

\* values of a module pointer: no module, a module without external files,
\* a module that includes files and uses libraries
NullModule == "null"
ModuleKinds == {"plain", "ext"}

\* A pointer to a compile artifact is recorded by what happened to it in the cycle
\* in flight, that is, since the lock was taken:
\*   "none"    null then and null now
\*   "kept"    the object it pointed to then
\*   "dropped" pointed to an object then, null now
\*   "built"   an object made since
Present(p) == p \in {"kept", "built"}

\* p.reset() / p = nullptr
Reset(p) == IF p \in {"kept", "dropped"} THEN "dropped" ELSE "none"

\* what a pointer is recorded as once the cycle is over
Settle(p) == IF Present(p) THEN "kept" ELSE "none"

ArtifactFields ==
  { "root_node", "csgRoot", "normalizedRoot", "root_products", "highlights_products",
    "background_products", "root_geom" }

\* cycle bookkeeping kept next to the program state (history, not read by the program):
\* what the cycle that last took the lock has done so far
NoCycle ==
  [ reparsed |-> FALSE, inst |-> FALSE, csg |-> FALSE, cancelled |-> "no",
    quiet |-> FALSE, polls |-> 0, cacheAtStart |-> "empty" ]

InitState ==
  [ \* GuiLocker and the static flag of actionRenderPreview
    gui_locked |-> U32Zero,
    preview_requested |-> FALSE,
    \* timers
    singleShot |-> 0,
    autoReloadTimer |-> FALSE,
    waitAfterReloadTimer |-> FALSE,
    designActionAutoReload |-> FALSE,
    \* MainWindow fields
    procevents |-> FALSE,
    afterCompileSlot |-> "none",
    includes_mtime |-> 0,
    deps_mtime |-> 0,
    autoReloadId |-> 0,
    parsed_module |-> NullModule,
    root_module |-> NullModule,
    last_compiled_doc |-> "",
    hardwarnings |-> FALSE,
    deferred |-> FALSE,
    root_node |-> "none",
    csgRoot |-> "none",
    normalizedRoot |-> "none",
    root_products |-> "none",
    highlights_products |-> "none",
    background_products |-> "none",
    root_geom |-> "none",
    progresswidget |-> FALSE,
    wasCanceled |-> FALSE,
    cgalworker |-> "idle",
    \* control position of the main thread and the locals that live across a checkpoint
    pc |-> "loop",
    frame |-> "none",
    chk |-> FALSE,
    reload |-> FALSE,
    forcedone |-> FALSE,
    didcompile |-> FALSE,
    \* GeometryCache / CGALCache: nothing memoized, or the solids of earlier renders
    cache |-> "empty",
    \* the limit the last CSGTreeNormalizer was constructed with (size_t)
    normalizelimit |-> <<0, 0, 0>>,
    \* export_paths has an entry; the line the last export or validity request that
    \* got past the lock printed on the console ("none": it printed nothing)
    export_paths |-> FALSE,
    diag |-> "none",
    \* history
    cyc |-> NoCycle ]

\* the active file exists on disk; the preference "advanced/enableHardwarnings" is
\* whatever the user has stored
\* the stored preference "advanced/openCSGLimit" when nobody has changed it
DefaultCeiling == <<1, 34464>>

InitEnv ==
  [ diskId : {1}, libTime : {0}, enableHardwarnings : BOOLEAN,
    openCSGLimit : {DefaultCeiling} ]

Init == st = InitState /\ env \in InitEnv

(* ---------------------- external collaborators ------------------------ *)
\* GuiLocker (GuiLocker.h): isLocked is gui_locked > 0, lock is ++, unlock is --
GuiLocker_isLocked(s) == s.gui_locked # U32Zero

GuiLocker_lock(s) == [s EXCEPT !.gui_locked = U32Inc(@)]

GuiLocker_unlock(s) == [s EXCEPT !.gui_locked = U32Dec(@)]

\* PRINT between no_exceptions_for_warnings() and would_have_thrown(): a warning is
\* latched instead of thrown when warnings are treated as fatal
PRINT_deferred(s, msg) ==
  IF s.hardwarnings /\ msg = "warning" THEN [s EXCEPT !.deferred = TRUE] ELSE s

\* PRINT outside that window: a warning throws HardWarningException
PRINT_throws(s, msg) == s.hardwarnings /\ msg = "warning"

no_exceptions_for_warnings(s) == [s EXCEPT !.deferred = FALSE]

would_have_thrown(s) == s.deferred

\* FileModule::includesChanged / handleDependencies: the newest timestamp among the
\* files the module includes / uses, as the disk shows it now
includesChanged(s, e) == IF s.parsed_module = "ext" THEN e.libTime ELSE 0

handleDependencies(s, e) == IF s.root_module = "ext" THEN e.libTime ELSE 0

\* root_module->hasIncludes() || root_module->usesLibraries()
hasExternalFiles(s) == s.root_module = "ext"

(* --------------------------- cycle endings ---------------------------- *)
compileEnded(s) ==
  LET u == GuiLocker_unlock(s) IN
  [u EXCEPT !.autoReloadTimer = IF s.designActionAutoReload THEN TRUE ELSE @]

\* seeded fault: an abort that leaves the auto-reload timer stopped
exceptionCleanup_noRestart(s) == GuiLocker_unlock(s)

exceptionCleanup(s) ==
  LET u == GuiLocker_unlock(s) IN
  [u EXCEPT !.autoReloadTimer = IF s.designActionAutoReload THEN TRUE ELSE @]

\* seeded fault: actionRenderPreview that forgets the requests it rejected
actionRenderPreview_tail_dropsRequest(s) == s

\* tail of actionRenderPreview, after compile() has returned
actionRenderPreview_tail(s) ==
  IF s.preview_requested THEN [s EXCEPT !.singleShot = @ + 1] ELSE s

\* the outermost handler returns to the event loop; the locals of compile() are gone.
\* With no cascade timer armed and no worker running the cycle is over ("done").
Return(s) ==
  LET r == IF s.frame = "preview" THEN actionRenderPreview_tail(s) ELSE s
      over == ~r.waitAfterReloadTimer /\ r.cgalworker = "idle"
  IN [r EXCEPT !.pc = IF over THEN "done" ELSE "loop", !.frame = "none", !.chk = FALSE,
               !.reload = FALSE, !.forcedone = FALSE, !.didcompile = FALSE]

\* the history of a finished cycle is forgotten: the artifacts that exist now are the
\* ones "kept" by the next cycle
Forget(s) ==
  [s EXCEPT !.cyc = NoCycle, !.pc = "loop",
            !.root_node = Settle(@), !.csgRoot = Settle(@), !.normalizedRoot = Settle(@),
            !.root_products = Settle(@), !.highlights_products = Settle(@),
            !.background_products = Settle(@), !.root_geom = Settle(@)]

(* ------------------------------ compile ------------------------------- *)
\* seeded fault: a file that is never seen to change
fileChangedOnDisk_never(s, e) == FALSE

fileChangedOnDisk(s, e) == e.diskId # s.autoReloadId

\* checkEditorModified(): an unmodified editor is reloaded without asking
checkEditorModified(in) == ~in.modified \/ in.answerYes

\* seeded fault: a parse that starts the watermarks again from zero
parseTopLevelDocument_resetsWatermarks(s, in) ==
  [s EXCEPT !.last_compiled_doc = "text",
            !.parsed_module = in.pm,
            !.root_module = IF in.ok THEN in.pm ELSE NullModule,
            !.includes_mtime = 0, !.deps_mtime = 0,
            !.cyc.reparsed = TRUE]

parseTopLevelDocument(s, in) ==
  [s EXCEPT !.last_compiled_doc = "text",
            !.parsed_module = in.pm,
            !.root_module = IF in.ok THEN in.pm ELSE NullModule,
            !.cyc.reparsed = TRUE]

\* what the environment decides while compile() runs up to the end of the parse: is the
\* editor modified, the answer to the "really reload?" box, the module the parser
\* returns, and whether the parse printed a warning
ParseInputs ==
  [ modified : BOOLEAN, answerYes : BOOLEAN, pm : ModuleKinds, ok : BOOLEAN,
    msg : {"none", "warning"} ]

\* compile(), lines 900-951: decide whether the top-level document must be parsed,
\* and parse it; the messages of the parse reach consoleOutput, whose processEvents
\* is the checkpoint "parsed"
compile_parse(s, e, reload, forcedone, in) ==
  LET s0 == [s EXCEPT !.hardwarnings = e.enableHardwarnings,
                      !.reload = reload, !.forcedone = forcedone]
      changed == reload /\ fileChangedOnDisk(s0, e)
      s1 == IF changed THEN [s0 EXCEPT !.autoReloadId = e.diskId] ELSE s0
      accepted == changed /\ checkEditorModified(in)
      s2 == IF changed /\ ~accepted
              THEN [s1 EXCEPT !.designActionAutoReload = FALSE, !.autoReloadTimer = FALSE]
              ELSE s1
      never == s2.last_compiled_doc = ""
      should1 == IF reload THEN accepted \/ never ELSE TRUE
      mtime == includesChanged(s2, e)
      newer == s2.parsed_module # NullModule /\ mtime > s2.includes_mtime
      s3 == IF newer THEN [s2 EXCEPT !.includes_mtime = mtime] ELSE s2
      shouldcompiletoplevel == should1 \/ newer
      s4 == no_exceptions_for_warnings(s3)
      s5 == IF shouldcompiletoplevel
              THEN PRINT_deferred(parseTopLevelDocument(s4, in), in.msg)
              ELSE s4
      quiet == reload /\ ~forcedone /\ ~fileChangedOnDisk(s, e)
               /\ s.last_compiled_doc # "" /\ ~(includesChanged(s, e) > s.includes_mtime)
  IN [s5 EXCEPT !.didcompile = shouldcompiletoplevel,
                !.pc = "parsed",
                !.chk = s5.procevents /\ shouldcompiletoplevel /\ in.msg # "none",
                !.cyc.quiet = quiet]

(* --------------------------- instantiateRoot -------------------------- *)
\* seeded fault: instantiateRoot that leaves the term tree of the previous pass in place
instantiateRoot_reset_keepsTerms(s) ==
  [s EXCEPT !.root_node = Reset(@), !.normalizedRoot = Reset(@),
            !.root_products = Reset(@),
            !.cyc.inst = TRUE,
            !.pc = "inst", !.chk = s.procevents]

\* instantiateRoot(), lines 1079-1105: the previous tree is removed, then the
\* "Compiling design" message and processEvents form the checkpoint "inst"; without
\* a module the checkpoint is the processEvents after the ERROR message (line 1135),
\* where the state is the same
instantiateRoot_reset(s) ==
  [s EXCEPT !.root_node = Reset(@), !.csgRoot = Reset(@), !.normalizedRoot = Reset(@),
            !.root_products = Reset(@),
            !.cyc.inst = TRUE,
            !.pc = "inst", !.chk = s.procevents]

\* what the evaluation of the module yields: a top-level node or none, and whether it
\* printed a warning
InstInputs == [ node : BOOLEAN, msg : {"none", "warning"} ]

\* instantiateRoot(), lines 1107-1136: the module is instantiated; root_node is the
\* new tree, or stays null when there is no module or no top-level object
instantiateRoot_eval(s, in) ==
  IF s.root_module # NullModule /\ in.node
    THEN [s EXCEPT !.root_node = "built"]
    ELSE s

(* ----------------------------- compileCSG ----------------------------- *)
\* seeded fault: compileCSG that attaches a fresh product collection before the term
\* tree is built
compileCSG_begin_attachesEarly(s, e) ==
  [s EXCEPT !.hardwarnings = e.enableHardwarnings,
            !.progresswidget = TRUE, !.wasCanceled = FALSE,
            !.root_products = "built",
            !.cyc.csg = TRUE, !.pc = "csg", !.chk = TRUE]

\* compileCSG(), lines 1145-1168: the progress widget is created and buildCSGTree
\* runs; report_func calls QApplication::processEvents (checkpoint "csg")
compileCSG_begin(s, e) ==
  [s EXCEPT !.hardwarnings = e.enableHardwarnings,
            !.progresswidget = TRUE, !.wasCanceled = FALSE,
            !.cyc.csg = TRUE, !.pc = "csg", !.chk = TRUE]

\* how buildCSGTree ends ("ok", ProgressCancelException, HardWarningException), what
\* the term tree is (no geometry, a tree, a tree that normalizes to nothing), and
\* whether highlight / background terms were collected
CsgInputs ==
  [ build : {"ok", "cancel", "hardwarning"}, root : {"none", "ok", "null"},
    hl : BOOLEAN, bg : BOOLEAN ]

\* seeded fault: a cancelled buildCSGTree that still delivers a term tree
buildCSGTree_ignoresCancel(s, in) ==
  [s EXCEPT !.csgRoot = IF in.build = "ok" /\ in.root = "none" THEN Reset(@) ELSE "built",
            !.progresswidget = FALSE, !.wasCanceled = FALSE,
            !.cyc.cancelled = IF in.build = "cancel" THEN "csg" ELSE @]

\* lines 1165-1182: csgRoot is the new term tree, or what it was when buildCSGTree
\* threw or found no geometry; progress_report_fin removes the progress widget
buildCSGTree(s, in) ==
  [s EXCEPT !.csgRoot = IF in.build = "ok"
                          THEN (IF in.root # "none" THEN "built" ELSE Reset(@))
                          ELSE @,
            !.progresswidget = FALSE, !.wasCanceled = FALSE,
            !.cyc.cancelled = IF in.build = "cancel" THEN "csg" ELSE @]

\* seeded fault: a normalization that gave up still imports what it has into
\* root_products
normalizeRoot_truncates(s, in) ==
  IF ~Present(s.csgRoot) THEN s
  ELSE IF in.root = "ok"
    THEN [s EXCEPT !.normalizedRoot = "built", !.root_products = "built"]
    ELSE [s EXCEPT !.normalizedRoot = Reset(@), !.root_products = "built"]

\* lines 1190-1201
normalizeRoot(s, in) ==
  IF ~Present(s.csgRoot) THEN s
  ELSE IF in.root = "ok"
    THEN [s EXCEPT !.normalizedRoot = "built", !.root_products = "built"]
    ELSE [s EXCEPT !.normalizedRoot = Reset(@), !.root_products = Reset(@)]

\* lines 1203-1216
compileHighlights(s, in) ==
  [s EXCEPT !.highlights_products = IF in.hl THEN "built" ELSE Reset(@)]

\* lines 1218-1231
compileBackground(s, in) ==
  [s EXCEPT !.background_products = IF in.bg THEN "built" ELSE Reset(@)]

\* line 1187: size_t normalizelimit = 2 * ...getValue("advanced/openCSGLimit").toUInt()
normalizelimit(e) == SizeOfU32(U32Twice(e.openCSGLimit))

\* compileCSG(), lines 1164-1258, from the end of buildCSGTree to the return: the
\* warning of line 1198, printed while warnings are fatal, leaves through the catch
\* at line 1256
compileCSG_finish(s, e, in) ==
  LET s0 == buildCSGTree(s, in)
      s1 == [s0 EXCEPT !.normalizelimit = normalizelimit(e)]
      s2 == normalizeRoot(s1, in)
      thrown == Present(s1.csgRoot) /\ in.root # "ok" /\ PRINT_throws(s2, "warning")
  IN IF thrown THEN exceptionCleanup(s2)
     ELSE compileBackground(compileHighlights(s2, in), in)

\* csgRender / csgReloadRender after compileCSG: the view is switched to the
\* preview mode and the cycle is ended
csgRender_tail(s) == Return(compileEnded(s))

csgReloadRender_tail(s) == Return(compileEnded(s))

\* seeded fault: csgRender that ends the cycle without compileCSG
csgRender_skipsCompile(s, e) == csgRender_tail(s)

csgRender(s, e) ==
  IF Present(s.root_node) THEN compileCSG_begin(s, e) ELSE csgRender_tail(s)

csgReloadRender(s, e) ==
  IF Present(s.root_node) THEN compileCSG_begin(s, e) ELSE csgReloadRender_tail(s)

(* ------------------------ full render (worker) ------------------------ *)
\* seeded fault: cgalRender that ends the cycle as soon as the worker is started
cgalRender_endsEarly(s) ==
  IF s.root_module = NullModule \/ ~Present(s.root_node)
    THEN Return(compileEnded(s))
    ELSE Return(compileEnded([s EXCEPT !.root_geom = Reset(@), !.progresswidget = TRUE,
                                       !.wasCanceled = FALSE, !.cgalworker = "running",
                                       !.cyc.cacheAtStart = s.cache]))

cgalRender(s) ==
  IF s.root_module = NullModule \/ ~Present(s.root_node)
    THEN Return(compileEnded(s))
    ELSE Return([s EXCEPT !.root_geom = Reset(@), !.progresswidget = TRUE,
                          !.wasCanceled = FALSE, !.cgalworker = "running",
                          !.cyc.cacheAtStart = s.cache])

\* what the worker delivers: a solid, nothing, or nothing because report_func threw
\* ProgressCancelException in the worker
WorkerResults == {"geom", "null", "cancelled"}

\* CGALWorker: the solids of a run that completed are memoized in the caches; a run
\* that was cancelled or found nothing leaves them as they are
CGALWorker_cache(c, res) == IF res = "geom" THEN "filled" ELSE c

\* the done(geometry-or-null) event of the worker, delivered to the main thread
actionRenderDone(s, res) ==
  LET s1 == [s EXCEPT !.cgalworker = "idle",
                      !.cache = CGALWorker_cache(@, res),
                      !.root_geom = IF res = "geom" THEN "built" ELSE @,
                      !.progresswidget = FALSE, !.wasCanceled = FALSE,
                      !.cyc.cancelled = IF res = "cancelled" THEN "worker" ELSE @]
  IN Return(compileEnded(s1))

(* ---------------------------- compileDone ----------------------------- *)
\* seeded fault: compileDone that instantiates whether or not anything changed
compileDone_always(s, e, didchange) ==
  instantiateRoot_reset([s EXCEPT !.hardwarnings = e.enableHardwarnings])

compileDone(s, e, didchange) ==
  LET s0 == [s EXCEPT !.hardwarnings = e.enableHardwarnings] IN
  IF didchange
    THEN instantiateRoot_reset(s0)
    ELSE Return(compileEnded([s0 EXCEPT !.procevents = FALSE]))

\* compileDone(), lines 1053-1065, from the checkpoint inside instantiateRoot on
compileDone_continue(s, e, in) ==
  IF s.root_module # NullModule /\ PRINT_throws(s, in.msg)
    THEN Return(exceptionCleanup(s))
    ELSE LET s1 == [instantiateRoot_eval(s, in) EXCEPT !.procevents = FALSE] IN
         CASE s1.afterCompileSlot = "csgRender" -> csgRender(s1, e)
           [] s1.afterCompileSlot = "csgReloadRender" -> csgReloadRender(s1, e)
           [] OTHER -> cgalRender(s1)

\* seeded fault: compile() that never waits for the dependencies to settle
shouldWaitAfterReload_never(s) == FALSE

\* compile(), lines 975-976: something changed and there are external dependencies
shouldWaitAfterReload(s) ==
  s.reload /\ s.didcompile /\ s.root_module # NullModule /\ hasExternalFiles(s)

\* compile(), lines 953-986
compile_finish(s, e, warned) ==
  LET has == s.root_module # NullModule
      mtime == handleDependencies(s, e)
      newer == has /\ mtime > s.deps_mtime
      s1 == IF newer THEN [s EXCEPT !.deps_mtime = mtime, !.didcompile = TRUE] ELSE s
      s2 == IF has /\ warned THEN PRINT_deferred(s1, "warning") ELSE s1
      thrown == would_have_thrown(s2)
      s3 == [s2 EXCEPT !.deferred = FALSE, !.cyc.quiet = @ /\ ~newer]
  IN IF thrown THEN Return(exceptionCleanup(s3))
     ELSE IF shouldWaitAfterReload(s3)
       THEN Return([s3 EXCEPT !.waitAfterReloadTimer = TRUE, !.procevents = FALSE])
       ELSE compileDone(s3, e, s3.didcompile \/ s3.forcedone)

\* waitAfterReload(): the single-shot timer has fired
waitAfterReload(s, e, warned, in) ==
  LET s0 == [no_exceptions_for_warnings(s) EXCEPT !.waitAfterReloadTimer = FALSE]
      mtime == handleDependencies(s0, e)
      s1 == IF warned THEN PRINT_deferred(s0, "warning") ELSE s0
      stop == would_have_thrown(s1)
      s2 == [s1 EXCEPT !.deferred = FALSE]
  IN IF mtime > s2.deps_mtime
       THEN [s2 EXCEPT !.deps_mtime = mtime, !.waitAfterReloadTimer = TRUE]
       ELSE IF ~stop
         THEN compile_parse([s2 EXCEPT !.frame = "wait"], e, TRUE, TRUE, in)
         ELSE [s2 EXCEPT !.waitAfterReloadTimer = TRUE, !.cyc.polls = @ + 1]

(* -------------------------- request handlers -------------------------- *)
\* actionRenderPreview(), lines 1793-1803
actionRenderPreview(s) ==
  LET s1 == [s EXCEPT !.preview_requested = TRUE] IN
  IF GuiLocker_isLocked(s1) THEN s1
  ELSE [GuiLocker_lock(s1) EXCEPT
          !.autoReloadTimer = FALSE, !.preview_requested = FALSE,
          !.pc = "entry", !.frame = "preview", !.chk = s.procevents]

\* actionRenderPreview(), lines 1804-1807
actionRenderPreview_compile(s, e, animate, in) ==
  compile_parse([s EXCEPT !.afterCompileSlot = "csgRender", !.procevents = ~animate],
                e, FALSE, FALSE, in)

actionReloadRenderPreview(s, e, in) ==
  IF GuiLocker_isLocked(s) THEN s
  ELSE compile_parse([GuiLocker_lock(s) EXCEPT
                        !.autoReloadTimer = FALSE,
                        !.afterCompileSlot = "csgReloadRender",
                        !.procevents = TRUE, !.frame = "reload"],
                     e, TRUE, FALSE, in)

\* seeded fault: actionRender without the check of the lock
actionRender_unguarded(s) ==
  [GuiLocker_lock(s) EXCEPT
     !.autoReloadTimer = FALSE,
     !.pc = "entry", !.frame = "render", !.chk = s.procevents]

\* actionRender(), lines 2011-2017
actionRender(s) ==
  IF GuiLocker_isLocked(s) THEN s
  ELSE [GuiLocker_lock(s) EXCEPT
          !.autoReloadTimer = FALSE,
          !.pc = "entry", !.frame = "render", !.chk = s.procevents]

\* actionRender(), lines 2018-2021
actionRender_compile(s, e, in) ==
  compile_parse([s EXCEPT !.afterCompileSlot = "cgalRender", !.procevents = TRUE],
                e, FALSE, FALSE, in)

autoReloadSet(s, on) ==
  [s EXCEPT !.designActionAutoReload = on, !.autoReloadTimer = on]

\* actionFlushCaches(): the menu entry Design > Flush Caches
actionFlushCaches(s) == [s EXCEPT !.cache = "empty"]

(* ----------------------- export, validity check ----------------------- *)
\* what an export request finds: the dimension the format needs, the dimension and
\* emptiness of the geometry root_geom points to, whether the user answers No in a
\* "really export?" box (shown when the tab was edited since its render, or when the
\* rendered tab is not the active one), and whether a file name was picked
ExportInputs ==
  [ dim : {2, 3}, geomDim : {2, 3}, isEmpty : BOOLEAN, withdrawn : BOOLEAN,
    named : BOOLEAN ]

\* what a validity request finds: the dimension of the geometry
ValidityInputs == [ geomDim : {2, 3} ]

\* canExport(dim): the verdict and the line it prints
canExport(s, in) ==
  IF ~Present(s.root_geom) THEN [ok |-> FALSE, msg |-> "nothing"]
  ELSE IF in.withdrawn THEN [ok |-> FALSE, msg |-> "none"]
  ELSE IF in.geomDim # in.dim THEN [ok |-> FALSE, msg |-> "dimension"]
  ELSE IF in.isEmpty THEN [ok |-> FALSE, msg |-> "empty"]
  ELSE [ok |-> TRUE, msg |-> "none"]

\* seeded fault: an export whose lock is released only when a file was written
actionExport_keepsLock(s, in) ==
  IF GuiLocker_isLocked(s) THEN s
  ELSE LET l == GuiLocker_lock(s)
           c == canExport(l, in)
       IN IF c.ok /\ in.named
            THEN GuiLocker_unlock([l EXCEPT !.export_paths = TRUE, !.diag = "exported"])
            ELSE [l EXCEPT !.diag = c.msg]

\* actionExport(format, type_name, suffix, dim); the GuiLocker object unlocks when
\* the function is left, by whichever return
actionExport(s, in) ==
  IF GuiLocker_isLocked(s) THEN s
  ELSE LET l == GuiLocker_lock(s)
           c == canExport(l, in)
       IN IF c.ok /\ in.named
            THEN GuiLocker_unlock([l EXCEPT !.export_paths = TRUE, !.diag = "exported"])
            ELSE GuiLocker_unlock([l EXCEPT !.diag = c.msg])

actionCheckValidity(s, in) ==
  IF GuiLocker_isLocked(s) THEN s
  ELSE LET l == GuiLocker_lock(s)
           msg == IF ~Present(l.root_geom) THEN "nothing"
                  ELSE IF in.geomDim # 3 THEN "dimension"
                  ELSE "valid"
       IN GuiLocker_unlock([l EXCEPT !.diag = msg])

(* ------------------------------ actions ------------------------------- *)
\* Qt dispatches events in the event loop and in a processEvents call that is not
\* switched off by procevents
EventsAllowed(s) == s.pc = "loop" \/ s.chk

\* inputs of a parse that is not preceded by a reload of the file
PlainParseInputs == { in \in ParseInputs : in.answerYes /\ ~in.modified }

RequestPreview ==
  /\ EventsAllowed(st)
  /\ (st.frame = "preview" /\ ~st.preview_requested) => st.singleShot < MaxShots
  /\ st' = actionRenderPreview(st)
  /\ UNCHANGED env

\* a zero-delay single-shot timer set by actionRenderPreview fires
SingleShotFire ==
  /\ st.singleShot > 0
  /\ EventsAllowed(st)
  /\ (st.frame = "preview" /\ ~st.preview_requested) => st.singleShot <= MaxShots
  /\ st' = actionRenderPreview([st EXCEPT !.singleShot = @ - 1])
  /\ UNCHANGED env

ContinuePreview ==
  /\ st.pc = "entry" /\ st.frame = "preview"
  /\ \E animate \in BOOLEAN, in \in PlainParseInputs :
       st' = actionRenderPreview_compile(st, env, animate, in)
  /\ UNCHANGED env

RequestReload ==
  /\ EventsAllowed(st)
  /\ \E in \in ParseInputs : st' = actionReloadRenderPreview(st, env, in)
  /\ UNCHANGED env

\* checkAutoReload(): the auto-reload timer has fired (the document has a file)
CheckAutoReload ==
  /\ st.autoReloadTimer
  /\ EventsAllowed(st)
  /\ \E in \in ParseInputs : st' = actionReloadRenderPreview(st, env, in)
  /\ UNCHANGED env

RequestRender ==
  /\ EventsAllowed(st)
  /\ st' = actionRender(st)
  /\ UNCHANGED env

ContinueRender ==
  /\ st.pc = "entry" /\ st.frame = "render"
  /\ \E in \in PlainParseInputs : st' = actionRender_compile(st, env, in)
  /\ UNCHANGED env

CompileFinish ==
  /\ st.pc = "parsed"
  /\ \E warned \in (IF hasExternalFiles(st) THEN BOOLEAN ELSE {FALSE}) :
       st' = compile_finish(st, env, warned)
  /\ UNCHANGED env

Instantiate ==
  /\ st.pc = "inst"
  /\ \E in \in InstInputs : st' = compileDone_continue(st, env, in)
  /\ UNCHANGED env

CompileCSG ==
  /\ st.pc = "csg"
  /\ \E in \in CsgInputs :
       /\ in.build = "cancel" => st.wasCanceled
       /\ in.build = "hardwarning" => st.hardwarnings
       /\ in.build # "ok" => in.root = "none"
       /\ st' = IF st.afterCompileSlot = "csgRender"
                  THEN csgRender_tail(compileCSG_finish(st, env, in))
                  ELSE csgReloadRender_tail(compileCSG_finish(st, env, in))
  /\ UNCHANGED env

WorkerDone ==
  /\ st.cgalworker = "running" /\ st.pc = "loop"
  /\ \E res \in WorkerResults :
       /\ res = "cancelled" => st.wasCanceled
       /\ st' = actionRenderDone(st, res)
  /\ UNCHANGED env

WaitAfterReloadTick ==
  /\ st.waitAfterReloadTimer /\ st.pc = "loop"
  /\ \E warned \in BOOLEAN, in \in ParseInputs :
       /\ st' = waitAfterReload(st, env, warned, in)
       /\ st'.cyc.polls <= MaxPolls
  /\ UNCHANGED env

\* the cancel button of the progress widget
CancelClick ==
  /\ EventsAllowed(st) /\ st.progresswidget /\ ~st.wasCanceled
  /\ st' = [st EXCEPT !.wasCanceled = TRUE]
  /\ UNCHANGED env

\* the user toggles Design > Automatic Reload and Preview
AutoReloadToggle ==
  /\ st.pc = "loop"
  /\ st' = autoReloadSet(st, ~st.designActionAutoReload)
  /\ UNCHANGED env

\* the user picks Design > Flush Caches
FlushCaches ==
  /\ EventsAllowed(st)
  /\ st' = actionFlushCaches(st)
  /\ UNCHANGED env

\* a cycle has just ended: the event loop is reached with nothing of the cycle pending
CycleOver ==
  /\ st.pc = "done"
  /\ st' = Forget(st)
  /\ UNCHANGED env

\* the top-level file is rewritten on disk: its id (mtime.size) changes
TouchFile ==
  /\ env.diskId < MaxFile
  /\ env' = [env EXCEPT !.diskId = @ + 1]
  /\ UNCHANGED st

\* an included or used file is rewritten, or becomes known: a newer timestamp
TouchDeps ==
  /\ env.libTime < MaxTime
  /\ env' = [env EXCEPT !.libTime = @ + 1]
  /\ UNCHANGED st

\* everything that can happen
Next ==
  \/ RequestPreview
  \/ SingleShotFire
  \/ ContinuePreview
  \/ RequestReload
  \/ CheckAutoReload
  \/ RequestRender
  \/ ContinueRender
  \/ CompileFinish
  \/ Instantiate
  \/ CompileCSG
  \/ WorkerDone
  \/ WaitAfterReloadTick
  \/ CancelClick
  \/ AutoReloadToggle
  \/ FlushCaches
  \/ CycleOver
  \/ TouchFile
  \/ TouchDeps

Spec == Init /\ [][Next]_vars

\* the code of a handler runs on, the worker delivers its done event, and a started
\* timer fires
Fairness ==
  /\ WF_vars(ContinuePreview) /\ WF_vars(ContinueRender) /\ WF_vars(CompileFinish)
  /\ WF_vars(Instantiate) /\ WF_vars(CompileCSG)
  /\ WF_vars(WorkerDone) /\ WF_vars(WaitAfterReloadTick) /\ WF_vars(CycleOver)

FairSpec == Spec /\ Fairness

\* A session at the keyboard: the user asks for previews, reloads and renders and
\* cancels them, automatic reload stays off and the files on disk stay as they are.
NextSession ==
  \/ RequestPreview
  \/ SingleShotFire
  \/ ContinuePreview
  \/ RequestReload
  \/ RequestRender
  \/ ContinueRender
  \/ CompileFinish
  \/ Instantiate
  \/ CompileCSG
  \/ WorkerDone
  \/ WaitAfterReloadTick
  \/ CancelClick
  \/ CycleOver

SpecSession == Init /\ [][NextSession]_vars

FairSession == SpecSession /\ Fairness

\* A session driven by the files: the document is reloaded by hand or by the
\* auto-reload timer while the active file and the files it depends on change.
NextAutoReload ==
  \/ RequestReload
  \/ CheckAutoReload
  \/ CompileFinish
  \/ Instantiate
  \/ CompileCSG
  \/ WaitAfterReloadTick
  \/ CancelClick
  \/ AutoReloadToggle
  \/ CycleOver
  \/ TouchFile
  \/ TouchDeps

SpecAutoReload == Init /\ [][NextAutoReload]_vars

\* A session of full renders: the user renders, cancels and flushes the caches.
NextRender ==
  \/ RequestPreview
  \/ SingleShotFire
  \/ ContinuePreview
  \/ RequestRender
  \/ ContinueRender
  \/ CompileFinish
  \/ Instantiate
  \/ CompileCSG
  \/ WorkerDone
  \/ CancelClick
  \/ FlushCaches
  \/ CycleOver

SpecRender == Init /\ [][NextRender]_vars

\* Previews under every kind of stored element ceiling: small, around 2^31, and up
\* to the largest unsigned int.
CeilingSamples ==
  { <<h, l>> : h \in {0, 1, 32767, 32768, 49152, 65535}, l \in {0, 1, 34464, 65535} }

InitLimit ==
  /\ st = InitState
  /\ env \in [ diskId : {1}, libTime : {0}, enableHardwarnings : {FALSE},
                openCSGLimit : CeilingSamples ]

NextLimit ==
  \/ RequestPreview
  \/ ContinuePreview
  \/ CompileFinish
  \/ Instantiate
  \/ CompileCSG
  \/ CycleOver

SpecLimit == InitLimit /\ [][NextLimit]_vars

\* the user picks one of File > Export
Export ==
  /\ EventsAllowed(st)
  /\ \E in \in ExportInputs : st' = actionExport(st, in)
  /\ UNCHANGED env

\* the user picks Design > Check Validity
CheckValidity ==
  /\ EventsAllowed(st)
  /\ \E in \in ValidityInputs : st' = actionCheckValidity(st, in)
  /\ UNCHANGED env

\* A session of renders and exports.
NextExport ==
  \/ RequestRender
  \/ ContinueRender
  \/ CompileFinish
  \/ Instantiate
  \/ WorkerDone
  \/ CancelClick
  \/ CycleOver
  \/ Export
  \/ CheckValidity

SpecExport == Init /\ [][NextExport]_vars

(* ---------------------------- report_func ----------------------------- *)
\* One run of the progress callback, between progress_report_prep and
\* progress_report_fin.  Here st is the state of the run: the thread report_func is
\* called on (the main thread during compileCSG, the worker thread during a render),
\* progress_report_count, the value of the progress widget, the setValue calls that
\* are queued for the main thread, the values sent so far, and the cancel flag.
MaxMark == 4
MaxCount == 3
MaxSent == 3

\* QApplication::processEvents on the main thread delivers the queued setValue calls
deliverQueued(s) ==
  IF s.queue = <<>> THEN s
  ELSE [s EXCEPT !.value = s.queue[Len(s.queue)], !.queue = <<>>]

\* report_func(node, vp, mark); expired is progressThrottle->hasExpired(MIN_TIMEOUT)
report_func(s, mark, expired) ==
  IF ~expired THEN s
  ELSE
    LET v == (mark * 1000) \div s.progress_report_count
        permille == IF v < 1000 THEN v ELSE 999
        s1 == IF permille > s.value
                THEN [s EXCEPT !.queue = Append(@, permille), !.sent = Append(@, permille)]
                ELSE s
        s2 == IF permille > s.value /\ s.thread = "main" THEN deliverQueued(s1) ELSE s1
    IN IF s2.wasCanceled THEN [s2 EXCEPT !.running = FALSE] ELSE s2

InitProgress ==
  /\ st \in [ thread : {"main", "worker"}, progress_report_count : 1..MaxCount,
              value : {0}, queue : {<<>>}, sent : {<<>>},
              wasCanceled : {FALSE}, running : {TRUE} ]
  /\ env \in InitEnv

\* a node reports its mark
ReportProgress ==
  /\ st.running /\ Len(st.sent) < MaxSent
  /\ \E mark \in 0..MaxMark, expired \in BOOLEAN : st' = report_func(st, mark, expired)
  /\ UNCHANGED env

\* the event loop of the main thread delivers a setValue call queued by the worker
DeliverSetValue ==
  /\ st.thread = "worker" /\ st.queue # <<>>
  /\ st' = [st EXCEPT !.value = Head(st.queue), !.queue = Tail(st.queue)]
  /\ UNCHANGED env

\* the cancel button of the progress widget
ProgressCancel ==
  /\ st.running /\ ~st.wasCanceled
  /\ st' = [st EXCEPT !.wasCanceled = TRUE]
  /\ UNCHANGED env

NextProgress == ReportProgress \/ DeliverSetValue \/ ProgressCancel

SpecProgress == InitProgress /\ [][NextProgress]_vars

(* ---------------------------- builtin_rands ---------------------------- *)
\* Two runs of the pipeline on one script that calls rands(min, max, n [, seed]).
\* Here st is the state of the process as far as rands is concerned: the two global
\* generators, the arguments the script passes, the vectors of the two runs, and
\* whether another call of rands was evaluated between them.
\* boost::mt19937 is stood for by a full-period generator on 0..RngMod-1.
RngMod == 16
MaxArg == 2

RngNext(g) == (5 * g + 3) % RngMod

\* boost::mt19937 constructed without a seed (default seed 5489)
DefaultSeeded == 5489 % RngMod

\* static_cast<uint32_t>(hash_floating_point(x)), then mt19937::seed
HashSeed(x) == (7 * x + 3) % RngMod

\* boost::uniform_real<>(min, max) applied to one output of the generator
Distribute(min, max, g) == min * RngMod + (max - min) * g

Number(x) == [type |-> "number", num |-> x]
NotANumber == [type |-> "string", num |-> 0]
NoArgument == [type |-> "none", num |-> 0]
Undefined == [type |-> "undef", vec |-> <<>>]
Pending == [type |-> "pending", vec |-> <<>>]

Abs(x) == IF x < 0 THEN -x ELSE x

RECURSIVE Draw(_, _, _, _)
\* the loop of lines 159-165: k outputs of generator state g, distributed
Draw(min, max, k, g) ==
  IF k = 0 THEN <<>>
  ELSE <<Distribute(min, max, RngNext(g))>> \o Draw(min, max, k - 1, RngNext(g))

RECURSIVE Advance(_, _)
Advance(g, k) == IF k = 0 THEN g ELSE Advance(RngNext(g), k - 1)

\* numeric_limits<double>::max() and the infinities in the units of the model: every
\* finite argument lies within -DoubleMax..DoubleMax
DoubleMax == 2 * (MaxArg + 1)

Infinity == DoubleMax + 1

\* std::isinf(x) || std::isnan(x), for the values a script passes here
isinf(x) == Abs(x) > DoubleMax

\* seeded fault: the loop draws from deterministic_rng whether or not a seed is given
rands_fill_sharedGenerator(s, min, max, numresults, deterministic) ==
  IF min = max
    THEN [state |-> s,
          value |-> [type |-> "vector", vec |-> [i \in 1..numresults |-> min * RngMod]]]
    ELSE [state |-> [s EXCEPT !.deterministic_rng = Advance(@, numresults)],
          value |-> [type |-> "vector",
                     vec |-> Draw(min, max, numresults, s.deterministic_rng)]]

\* lines 154-167: the vector is filled with min, or with numresults samples of the
\* generator that `deterministic` selects
rands_fill(s, min, max, numresults, deterministic) ==
  IF min = max
    THEN [state |-> s,
          value |-> [type |-> "vector", vec |-> [i \in 1..numresults |-> min * RngMod]]]
    ELSE IF deterministic
      THEN [state |-> [s EXCEPT !.deterministic_rng = Advance(@, numresults)],
            value |-> [type |-> "vector",
                       vec |-> Draw(min, max, numresults, s.deterministic_rng)]]
      ELSE [state |-> [s EXCEPT !.lessdeterministic_rng = Advance(@, numresults)],
            value |-> [type |-> "vector",
                       vec |-> Draw(min, max, numresults, s.lessdeterministic_rng)]]

\* seeded fault: rands that draws from lessdeterministic_rng although a seed is given
builtin_rands_ignoresSeed(s) ==
  LET a == s.args IN
  IF a.n.type = "none" THEN [state |-> s, value |-> Undefined, warning |-> TRUE]
  ELSE IF a.min.type # "number" \/ a.max.type # "number" \/ a.n.type # "number"
          \/ a.seed.type = "string"
    THEN [state |-> s, value |-> Undefined,
          warning |-> \/ (a.min.type = "number" /\ isinf(a.min.num))
                      \/ (a.min.type = "number" /\ a.max.type = "number"
                            /\ (isinf(a.max.num) \/ isinf(a.n.num)))]
    ELSE
      LET min0 == IF isinf(a.min.num) THEN -(DoubleMax \div 2) ELSE a.min.num
          max0 == IF isinf(a.max.num) THEN DoubleMax \div 2 ELSE a.max.num
          min == IF max0 < min0 THEN max0 ELSE min0
          max == IF max0 < min0 THEN min0 ELSE max0
          numresults == IF isinf(a.n.num) THEN 1 ELSE Abs(a.n.num)
          s1 == IF a.seed.type = "number"
                  THEN [s EXCEPT !.deterministic_rng = HashSeed(a.seed.num)] ELSE s
          r == rands_fill(s1, min, max, numresults, FALSE)
      IN [state |-> r.state, value |-> r.value,
          warning |-> isinf(a.min.num) \/ isinf(a.max.num) \/ isinf(a.n.num)]

\* builtin_rands(ctx, evalctx), lines 111-172: the new state of the generators, the
\* value returned (in units of 1/RngMod) and whether a warning was printed
builtin_rands(s) ==
  LET a == s.args IN
  IF a.n.type = "none" THEN [state |-> s, value |-> Undefined, warning |-> TRUE]
  ELSE IF a.min.type # "number" \/ a.max.type # "number" \/ a.n.type # "number"
          \/ a.seed.type = "string"
    THEN [state |-> s, value |-> Undefined,
          warning |-> \/ (a.min.type = "number" /\ isinf(a.min.num))
                      \/ (a.min.type = "number" /\ a.max.type = "number"
                            /\ (isinf(a.max.num) \/ isinf(a.n.num)))]
    ELSE
      LET min0 == IF isinf(a.min.num) THEN -(DoubleMax \div 2) ELSE a.min.num
          max0 == IF isinf(a.max.num) THEN DoubleMax \div 2 ELSE a.max.num
          min == IF max0 < min0 THEN max0 ELSE min0
          max == IF max0 < min0 THEN min0 ELSE max0
          numresults == IF isinf(a.n.num) THEN 1 ELSE Abs(a.n.num)
          deterministic == a.seed.type = "number"
          s1 == IF deterministic
                  THEN [s EXCEPT !.deterministic_rng = HashSeed(a.seed.num)] ELSE s
          r == rands_fill(s1, min, max, numresults, deterministic)
      IN [state |-> r.state, value |-> r.value,
          warning |-> isinf(a.min.num) \/ isinf(a.max.num) \/ isinf(a.n.num)]

\* the evaluation was aborted by HardWarningException
HardWarning == [type |-> "thrown", vec |-> <<>>]

\* one evaluation of rands(...) in process state s with warnings fatal or not: a
\* warning printed with hardwarnings on ends the evaluation before anything is
\* seeded or drawn
evaluate_rands(s, hardwarnings) ==
  LET r == builtin_rands(s)
  IN IF hardwarnings /\ r.warning THEN [state |-> s, value |-> HardWarning]
     ELSE [state |-> r.state, value |-> r.value]

ArgValues == {Number(x) : x \in 0..MaxArg} \cup {NotANumber}

\* the calls a script can hold: rands(min, max), rands(min, max, n) and
\* rands(min, max, n, seed) with finite and infinite numbers and strings
CallValues ==
  { a \in [ min : ArgValues \cup {Number(Infinity), Number(-Infinity)},
            max : ArgValues \cup {Number(Infinity), Number(-Infinity)},
            n : {Number(x) : x \in (-1)..MaxArg}
                  \cup {Number(Infinity), NotANumber, NoArgument},
            seed : ArgValues \cup {NoArgument} ] :
      a.n = NoArgument => a.seed = NoArgument }

\* the process has started (lessdeterministic_rng seeded from time and pid) and a
\* script is loaded
InitRands ==
  /\ st \in [ deterministic_rng : {DefaultSeeded},
              lessdeterministic_rng : 0..(RngMod - 1),
              args : CallValues,
              first : {Pending}, second : {Pending}, between : {FALSE} ]
  /\ env \in InitEnv

\* the script is evaluated for the first time
FirstRun ==
  /\ st.first = Pending
  /\ LET r == evaluate_rands(st, env.enableHardwarnings)
     IN st' = [r.state EXCEPT !.first = r.value]
  /\ UNCHANGED env

\* the unchanged script is evaluated again
SecondRun ==
  /\ st.first # Pending /\ st.second = Pending
  /\ LET r == evaluate_rands(st, env.enableHardwarnings)
     IN st' = [r.state EXCEPT !.second = r.value]
  /\ UNCHANGED env

\* the calls of rands with finite numbers, with and without a seed
FiniteCalls ==
  [ min : {Number(x) : x \in 0..MaxArg}, max : {Number(x) : x \in 0..MaxArg},
    n : {Number(x) : x \in (-1)..MaxArg},
    seed : {Number(x) : x \in 0..MaxArg} \cup {NoArgument} ]

\* a script with a seeded call of rands and other calls of rands is loaded
InitIsolation ==
  /\ InitRands
  /\ st.args \in FiniteCalls /\ st.args.seed # NoArgument
  /\ ~env.enableHardwarnings

\* between the two evaluations another call of rands is evaluated
OtherCall ==
  /\ st.first # Pending /\ st.second = Pending
  /\ \E a \in FiniteCalls :
       st' = [evaluate_rands([st EXCEPT !.args = a], env.enableHardwarnings).state
                EXCEPT !.args = st.args, !.between = TRUE]
  /\ UNCHANGED env

NextRands == FirstRun \/ SecondRun

\* two evaluations of one call with other calls of rands between them
SpecIsolation == InitIsolation /\ [][FirstRun \/ OtherCall \/ SecondRun]_vars

SpecRands == InitRands /\ [][NextRands]_vars

(* --------------------------- builtin_lookup --------------------------- *)
\* One script that calls lookup(p, table).  Here st holds the arguments the script
\* passes, the value lookup returned for the table as the script first had it
\* (orig), the value it returned for the table in its present row order (value), and
\* whether rows have changed places since (reordered).
\* Keys and values are small integers; a value returned is kept in units of
\* 1 / LookupUnit so that every quotient of the interpolation is exact.
MaxKey == 3
MaxVal == 2
MaxRows == 3

\* every difference of two keys (and of a key and p) divides LookupUnit
LookupUnit ==
  LET RECURSIVE Factorial(_)
      Factorial(n) == IF n <= 1 THEN 1 ELSE n * Factorial(n - 1)
  IN Factorial(MaxKey + 2)

\* a row [k, v] of two numbers, and a row that getVec2 refuses
Vec2(k, v) == [type |-> "vec2", k |-> k, v |-> v]
OtherRow == [type |-> "other", k |-> 0, v |-> 0]

RECURSIVE lookup_scan_keepsFirst(_, _, _, _, _)
\* seeded fault: the loop without the replacement of a first row that lies on the
\* wrong side of p
lookup_scan_keepsFirst(p, vec, i, low, high) ==
  IF i > Len(vec) THEN [low |-> low, high |-> high]
  ELSE LET r == vec[i] IN
       IF r.type # "vec2" THEN lookup_scan_keepsFirst(p, vec, i + 1, low, high)
       ELSE lookup_scan_keepsFirst(p, vec, i + 1,
              IF r.k <= p /\ r.k > low.k THEN r ELSE low,
              IF r.k >= p /\ r.k < high.k THEN r ELSE high)

RECURSIVE lookup_scan(_, _, _, _, _)
\* the loop of lines 579-591 from row i on: low and high are the rows whose key and
\* value low_p, low_v and high_p, high_v hold
lookup_scan(p, vec, i, low, high) ==
  IF i > Len(vec) THEN [low |-> low, high |-> high]
  ELSE LET r == vec[i] IN
       IF r.type # "vec2" THEN lookup_scan(p, vec, i + 1, low, high)
       ELSE lookup_scan(p, vec, i + 1,
              IF r.k <= p /\ (r.k > low.k \/ low.k > p) THEN r ELSE low,
              IF r.k >= p /\ (r.k < high.k \/ high.k < p) THEN r ELSE high)

\* seeded fault: the two clamping returns hand out the value of the other end
lookup_result_swapsEnds(p, low, high) ==
  IF p <= low.k THEN Number(low.v * LookupUnit)
  ELSE IF p >= high.k THEN Number(high.v * LookupUnit)
  ELSE Number(((high.v * (p - low.k) + low.v * (high.k - p)) * LookupUnit)
                \div (high.k - low.k))

\* lines 592-598: f = (p-low_p) / (high_p-low_p); high_v * f + low_v * (1-f)
lookup_result(p, low, high) ==
  IF p <= low.k THEN Number(high.v * LookupUnit)
  ELSE IF p >= high.k THEN Number(low.v * LookupUnit)
  ELSE Number(((high.v * (p - low.k) + low.v * (high.k - p)) * LookupUnit)
                \div (high.k - low.k))

\* builtin_lookup(ctx, evalctx), lines 562-599: the value returned and whether a
\* warning was printed
builtin_lookup(a) ==
  IF a.numArgs # 2 THEN [value |-> Undefined, warning |-> TRUE]
  ELSE IF a.p.type # "number" THEN [value |-> Undefined, warning |-> TRUE]
  ELSE IF a.table = <<>> THEN [value |-> Undefined, warning |-> FALSE]
  ELSE IF a.table[1].type # "vec2" THEN [value |-> Undefined, warning |-> FALSE]
  ELSE LET b == lookup_scan(a.p.num, a.table, 2, a.table[1], a.table[1])
       IN [value |-> lookup_result(a.p.num, b.low, b.high), warning |-> FALSE]

\* the tables a script passes: up to MaxRows rows, each a 2-number row or not
Tables ==
  LET Rows == {Vec2(k, v) : k \in 0..MaxKey, v \in 0..MaxVal} \cup {OtherRow}
  IN UNION { [1..n -> Rows] : n \in 0..MaxRows }

\* a script with a call of lookup is loaded: two arguments of every kind, or a call
\* with one argument or three
InitLookup ==
  /\ st \in [ args : [ numArgs : {1, 2, 3},
                       p : {Number(x) : x \in (-1)..(MaxKey + 1)} \cup {NotANumber},
                       table : Tables ],
              orig : {Pending}, value : {Pending}, reordered : {FALSE} ]
  /\ st.args.numArgs # 2 => (st.args.p = NotANumber /\ st.args.table = <<>>)
  /\ env \in [ diskId : {1}, libTime : {0}, enableHardwarnings : {FALSE},
               openCSGLimit : {DefaultCeiling} ]

\* the script is evaluated
Lookup ==
  /\ st.value = Pending
  /\ LET r == builtin_lookup(st.args)
     IN st' = [st EXCEPT !.value = r.value,
                         !.orig = IF @ = Pending THEN r.value ELSE @]
  /\ UNCHANGED env

\* the user edits the script: two neighbouring rows of the table change places
Reorder ==
  /\ st.value # Pending
  /\ \E i \in 1..(Len(st.args.table) - 1) :
       st' = [st EXCEPT !.value = Pending, !.reordered = TRUE,
                        !.args.table = [@ EXCEPT ![i] = st.args.table[i + 1],
                                                 ![i + 1] = st.args.table[i]]]
  /\ UNCHANGED env

NextLookup == Lookup \/ Reorder

SpecLookup == InitLookup /\ [][NextLookup]_vars

(* --------------------------- builtin_search --------------------------- *)
\* One script that calls search(find, table [, num_returns_per_match
\* [, index_col_num]]).  Here st holds the arguments the script passes, whether
\* warnings are fatal (OpenSCAD::hardwarnings), and the value of the call.  A string
\* is the sequence of its code points.
MaxFind == 2
MaxTable == 3
MaxReturns == 2

Str(s) == [type |-> "string", str |-> s]
Vec(v) == [type |-> "vector", vec |-> v]
\* Value::toVectorPtr(): the elements of a vector, nothing for any other value
toVectorPtr(v) == IF v.type = "vector" THEN v.vec ELSE <<>>

\* the first code point of Value::toString(): of a string its first character (0 at
\* the end of an empty string), of a small number its digit, of a vector "["
firstCodePoint(v) ==
  IF v.type = "string" THEN (IF v.str = <<>> THEN 0 ELSE v.str[1])
  ELSE IF v.type = "number" THEN 48 + v.num
  ELSE IF v.type = "vector" THEN 91
  ELSE 117

\* the comparison of builtin_search, lines 751-753 and 777-779
matchesEntry(find_value, search_element, index_col_num) ==
  \/ index_col_num = 0 /\ find_value = search_element
  \/ /\ index_col_num < Len(toVectorPtr(search_element))
     /\ find_value = toVectorPtr(search_element)[index_col_num + 1]

RECURSIVE scanTable_noBreak(_, _, _, _)
\* seeded fault: the inner loop without the break after the first match
scanTable_noBreak(hit, j, matchCount, num_returns_per_match) ==
  IF j >= Len(hit) THEN [found |-> <<>>, invalid |-> FALSE]
  ELSE IF hit[j + 1] = "invalid" THEN [found |-> <<>>, invalid |-> TRUE]
  ELSE IF hit[j + 1] = "no"
    THEN scanTable_noBreak(hit, j + 1, matchCount, num_returns_per_match)
  ELSE IF num_returns_per_match > 1 /\ matchCount + 1 >= num_returns_per_match
    THEN [found |-> <<Number(j)>>, invalid |-> FALSE]
  ELSE LET rest == scanTable_noBreak(hit, j + 1, matchCount + 1, num_returns_per_match)
       IN [found |-> <<Number(j)>> \o rest.found, invalid |-> rest.invalid]

RECURSIVE scanTable(_, _, _, _)
\* the inner loop over j from row j on, for a sequence hit of comparison outcomes
\* ("no", "yes", or "invalid" for an entry that is too short): the indices collected
\* until the loop is left by break, by its end, or by the return for an invalid entry
scanTable(hit, j, matchCount, num_returns_per_match) ==
  IF j >= Len(hit) THEN [found |-> <<>>, invalid |-> FALSE]
  ELSE IF hit[j + 1] = "invalid" THEN [found |-> <<>>, invalid |-> TRUE]
  ELSE IF hit[j + 1] = "no" THEN scanTable(hit, j + 1, matchCount, num_returns_per_match)
  ELSE IF num_returns_per_match >= 1 /\ matchCount + 1 >= num_returns_per_match
    THEN [found |-> <<Number(j)>>, invalid |-> FALSE]
  ELSE LET rest == scanTable(hit, j + 1, matchCount + 1, num_returns_per_match)
       IN [found |-> <<Number(j)>> \o rest.found, invalid |-> rest.invalid]

RECURSIVE collect_dropsEmpty(_, _, _, _, _)
\* seeded fault: an element without a match appends nothing in any mode
collect_dropsEmpty(hits, i, num_returns_per_match, emptyOnMiss, warnOnMiss) ==
  IF i > Len(hits) THEN [vec |-> <<>>, warning |-> FALSE, invalid |-> FALSE]
  ELSE LET r == scanTable(hits[i], 0, 0, num_returns_per_match) IN
       IF r.invalid THEN [vec |-> <<>>, warning |-> TRUE, invalid |-> TRUE]
       ELSE LET rest == collect_dropsEmpty(hits, i + 1, num_returns_per_match,
                                           emptyOnMiss, warnOnMiss)
                own == IF r.found = <<>> THEN <<>>
                       ELSE IF num_returns_per_match = 1 THEN r.found
                       ELSE <<Vec(r.found)>>
            IN IF rest.invalid THEN rest
               ELSE [vec |-> own \o rest.vec,
                     warning |-> rest.warning \/ (warnOnMiss /\ r.found = <<>>),
                     invalid |-> FALSE]

RECURSIVE collect_alwaysEmpty(_, _, _, _, _)
\* seeded fault: the empty resultvec of an element without a match is appended for
\* every kind of search input
collect_alwaysEmpty(hits, i, num_returns_per_match, emptyOnMiss, warnOnMiss) ==
  IF i > Len(hits) THEN [vec |-> <<>>, warning |-> FALSE, invalid |-> FALSE]
  ELSE LET r == scanTable(hits[i], 0, 0, num_returns_per_match) IN
       IF r.invalid THEN [vec |-> <<>>, warning |-> TRUE, invalid |-> TRUE]
       ELSE LET rest == collect_alwaysEmpty(hits, i + 1, num_returns_per_match,
                                            emptyOnMiss, warnOnMiss)
                own == IF num_returns_per_match = 1
                         THEN (IF r.found = <<>> THEN <<Vec(<<>>)>> ELSE r.found)
                         ELSE <<Vec(r.found)>>
            IN IF rest.invalid THEN rest
               ELSE [vec |-> own \o rest.vec,
                     warning |-> rest.warning \/ (warnOnMiss /\ r.found = <<>>),
                     invalid |-> FALSE]

RECURSIVE collect(_, _, _, _, _)
\* the outer loop over the elements of the search input from element i on: hits[i]
\* is the sequence of comparison outcomes of element i; emptyOnMiss says whether an
\* element without a match appends its empty resultvec when one result per match is
\* asked for; warnOnMiss whether "search term not found" is printed
collect(hits, i, num_returns_per_match, emptyOnMiss, warnOnMiss) ==
  IF i > Len(hits) THEN [vec |-> <<>>, warning |-> FALSE, invalid |-> FALSE]
  ELSE LET r == scanTable(hits[i], 0, 0, num_returns_per_match) IN
       IF r.invalid THEN [vec |-> <<>>, warning |-> TRUE, invalid |-> TRUE]
       ELSE LET rest == collect(hits, i + 1, num_returns_per_match, emptyOnMiss,
                                warnOnMiss)
                own == IF num_returns_per_match = 1
                         THEN (IF r.found = <<>> /\ emptyOnMiss THEN <<Vec(<<>>)>>
                               ELSE r.found)
                         ELSE <<Vec(r.found)>>
            IN IF rest.invalid THEN rest
               ELSE [vec |-> own \o rest.vec,
                     warning |-> rest.warning \/ (warnOnMiss /\ r.found = <<>>),
                     invalid |-> FALSE]

\* seeded fault: the string search that appends the empty resultvec of a character
\* without a match
search_string_appendsEmpty(find, table, num_returns_per_match) ==
  collect([i \in 1..Len(find) |->
             [j \in 1..Len(table) |-> IF find[i] = table[j] THEN "yes" ELSE "no"]],
          1, num_returns_per_match, TRUE, FALSE)

\* search(find, table, num_returns_per_match, loc, ctx) for a string table, lines 652-688
search_string(find, table, num_returns_per_match) ==
  collect([i \in 1..Len(find) |->
             [j \in 1..Len(table) |-> IF find[i] = table[j] THEN "yes" ELSE "no"]],
          1, num_returns_per_match, FALSE, FALSE)

\* seeded fault: the search in a vector table that collects every match whatever
\* num_returns_per_match is
search_vector_allMatches(find, table, num_returns_per_match, index_col_num) ==
  collect([i \in 1..Len(find) |->
             [j \in 1..Len(table) |->
                IF Len(toVectorPtr(table[j])) <= index_col_num THEN "invalid"
                ELSE IF find[i] = firstCodePoint(toVectorPtr(table[j])[index_col_num + 1])
                  THEN "yes" ELSE "no"]],
          1, 0, FALSE, TRUE)

\* search(find, table, num_returns_per_match, index_col_num, loc, ctx) for a vector
\* table, lines 690-731
search_vector(find, table, num_returns_per_match, index_col_num) ==
  collect([i \in 1..Len(find) |->
             [j \in 1..Len(table) |->
                IF Len(toVectorPtr(table[j])) <= index_col_num THEN "invalid"
                ELSE IF find[i] = firstCodePoint(toVectorPtr(table[j])[index_col_num + 1])
                  THEN "yes" ELSE "no"]],
          1, num_returns_per_match, FALSE, TRUE)

\* builtin_search(ctx, evalctx), lines 733-803: the value returned and whether a
\* warning was printed
builtin_search(a) ==
  LET numArgs == IF a.table = NoArgument THEN 1
                 ELSE IF a.num_returns_per_match = NoArgument THEN 2
                 ELSE IF a.index_col_num = NoArgument THEN 3 ELSE 4
      \* Value::toDouble() converted to unsigned int, for the values passed here
      toUnsigned(v) == IF v.type = "number" THEN v.num ELSE 0
  IN
  IF numArgs < 2 THEN [value |-> Undefined, warning |-> TRUE]
  ELSE
    LET num_returns_per_match ==
          IF numArgs > 2 THEN toUnsigned(a.num_returns_per_match) ELSE 1
        index_col_num == IF numArgs > 3 THEN toUnsigned(a.index_col_num) ELSE 0
        localTable == toVectorPtr(a.table)
    IN IF a.find.type = "number"
         THEN LET r == scanTable([j \in 1..Len(localTable) |->
                                    IF matchesEntry(a.find, localTable[j], index_col_num)
                                      THEN "yes" ELSE "no"],
                                 0, 0, num_returns_per_match)
              IN [value |-> Vec(r.found), warning |-> FALSE]
       ELSE IF a.find.type = "string"
         THEN LET r == IF a.table.type = "string"
                         THEN search_string(a.find.str, a.table.str, num_returns_per_match)
                         ELSE search_vector(a.find.str, localTable, num_returns_per_match,
                                            index_col_num)
              IN [value |-> Vec(r.vec), warning |-> r.warning]
       ELSE IF a.find.type = "vector"
         THEN LET r == collect([i \in 1..Len(a.find.vec) |->
                                  [j \in 1..Len(localTable) |->
                                     IF matchesEntry(a.find.vec[i], localTable[j],
                                                     index_col_num)
                                       THEN "yes" ELSE "no"]],
                               1, num_returns_per_match, TRUE, FALSE)
              IN [value |-> Vec(r.vec), warning |-> FALSE]
       ELSE [value |-> Undefined, warning |-> FALSE]

\* a script with a call of search is loaded.  Search inputs: a number, a string over
\* "1", "a", "b", a vector of numbers and one-letter strings, undef.  Tables: a string,
\* or a vector of rows ["a", 1], ["b", 2], [1], "a", 2.
InitSearch ==
  /\ LET SeqUpTo(S, n) == UNION { [1..k -> S] : k \in 0..n }
         CodePoints == {49, 97, 98}
         FindValues ==
           {Number(1), Number(2), Undefined}
           \cup { Str(s) : s \in SeqUpTo(CodePoints, MaxFind) }
           \cup { Vec(v) : v \in SeqUpTo({Number(1), Number(2), Str(<<97>>),
                                          Str(<<98>>)}, MaxFind) }
         TableValues ==
           { Str(s) : s \in SeqUpTo(CodePoints, MaxTable) }
           \cup { Vec(v) : v \in SeqUpTo({ Vec(<<Str(<<97>>), Number(1)>>),
                                           Vec(<<Str(<<98>>), Number(2)>>),
                                           Vec(<<Number(1)>>), Str(<<97>>), Number(2) },
                                         MaxTable) }
     IN
     st \in [ args : [ find : FindValues,
                       table : TableValues \cup {NoArgument},
                       num_returns_per_match :
                         {Number(n) : n \in 0..MaxReturns} \cup {NoArgument},
                       index_col_num : {Number(1), NoArgument} ],
              hardwarnings : BOOLEAN,
              value : {Pending} ]
  /\ st.args.num_returns_per_match = NoArgument => st.args.index_col_num = NoArgument
  /\ st.args.table = NoArgument =>
       (st.args.num_returns_per_match = NoArgument /\ st.args.find = Undefined)
  /\ env \in [ diskId : {1}, libTime : {0}, enableHardwarnings : {st.hardwarnings},
               openCSGLimit : {DefaultCeiling} ]

\* the script is evaluated; outside the parse a warning is fatal when hardwarnings is on
Search ==
  /\ st.value = Pending
  /\ LET r == builtin_search(st.args)
     IN st' = [st EXCEPT !.value = IF PRINT_throws(st, IF r.warning THEN "warning"
                                                        ELSE "none")
                                     THEN HardWarning ELSE r.value]
  /\ UNCHANGED env

SpecSearch == InitSearch /\ [][Search]_vars

(* ------------------------ argument checking --------------------------- *)
\* One call of a built-in function with arguments of every kind and number.  Here st
\* holds the call (the function and what the script passes), the two generators,
\* whether warnings are fatal, the value of the call and whether a warning was
\* printed.  The arguments of abs, ord and norm are the sequence call.args; those of
\* rands, lookup and search are the records call.rands, call.lookup and call.search.

\* builtin_abs(ctx, evalctx), lines 79-93
builtin_abs(args) ==
  IF Len(args) = 1
    THEN IF args[1].type = "number"
           THEN [value |-> Number(Abs(args[1].num)), warning |-> FALSE]
           ELSE [value |-> Undefined, warning |-> TRUE]
    ELSE [value |-> Undefined, warning |-> TRUE]

\* builtin_ord(ctx, evalctx), lines 513-543 (a string of code points is valid utf8)
builtin_ord(args) ==
  IF Len(args) = 0 THEN [value |-> Undefined, warning |-> FALSE]
  ELSE IF Len(args) > 1 THEN [value |-> Undefined, warning |-> TRUE]
  ELSE IF args[1].type # "string" THEN [value |-> Undefined, warning |-> TRUE]
  ELSE IF Len(args[1].str) = 0 THEN [value |-> Undefined, warning |-> FALSE]
  ELSE [value |-> Number(args[1].str[1]), warning |-> FALSE]

\* builtin_norm(ctx, evalctx), lines 857-880; sqrt is rounded down to an integer
builtin_norm(args) ==
  IF Len(args) = 1
    THEN IF args[1].type = "vector"
           THEN LET v == args[1].vec
                    RECURSIVE SumSquares(_)
                    SumSquares(i) ==
                      IF i > Len(v) THEN 0 ELSE v[i].num * v[i].num + SumSquares(i + 1)
                    sum == SumSquares(1)
                IN IF \E i \in 1..Len(v) : v[i].type # "number"
                     THEN [value |-> Undefined, warning |-> TRUE]
                     ELSE [value |-> Number(CHOOSE r \in 0..sum :
                                              r * r <= sum /\ sum < (r + 1) * (r + 1)),
                           warning |-> FALSE]
           ELSE [value |-> Undefined, warning |-> FALSE]
    ELSE [value |-> Undefined, warning |-> TRUE]

\* the evaluator calls the built-in the script names: the state of the generators
\* after the call, the value returned and whether a warning was printed
callBuiltin(s) ==
  LET c == s.call
      pure(r) == [state |-> s, value |-> r.value, warning |-> r.warning]
  IN CASE c.fn = "abs" -> pure(builtin_abs(c.args))
       [] c.fn = "ord" -> pure(builtin_ord(c.args))
       [] c.fn = "norm" -> pure(builtin_norm(c.args))
       [] c.fn = "lookup" -> pure(builtin_lookup(c.lookup))
       [] c.fn = "search" -> pure(builtin_search(c.search))
       [] c.fn = "rands" ->
            LET r == builtin_rands([ args |-> c.rands,
                                     deterministic_rng |-> s.deterministic_rng,
                                     lessdeterministic_rng |-> s.lessdeterministic_rng ])
            IN [state |-> [s EXCEPT !.deterministic_rng = r.state.deterministic_rng,
                                    !.lessdeterministic_rng = r.state.lessdeterministic_rng],
                value |-> r.value, warning |-> r.warning]

\* the calls a script can hold
Calls ==
  LET Values == { Number(2), Str(<<97>>), Str(<<>>), Undefined,
                  Vec(<<Number(3), Number(4)>>), Vec(<<Number(3), Str(<<97>>)>>) }
      Lists == UNION { [1..k -> Values] : k \in 0..2 }
      NoRands == [min |-> NoArgument, max |-> NoArgument, n |-> NoArgument,
                  seed |-> NoArgument]
      NoLookup == [numArgs |-> 0, p |-> NotANumber, table |-> <<>>]
      NoSearch == [find |-> Undefined, table |-> NoArgument,
                   num_returns_per_match |-> NoArgument, index_col_num |-> NoArgument]
      Call(f, a, r, l, s) ==
        [fn |-> f, args |-> a, rands |-> r, lookup |-> l, search |-> s]
  IN { Call(f, a, NoRands, NoLookup, NoSearch) : f \in {"abs", "ord", "norm"}, a \in Lists }
     \cup { Call("rands", <<>>, r, NoLookup, NoSearch) : r \in CallValues }
     \cup { Call("lookup", <<>>, NoRands, l, NoSearch) :
              l \in [ numArgs : {1, 2, 3}, p : {Number(1), NotANumber},
                      table : {<<>>, <<OtherRow>>, <<Vec2(0, 0), Vec2(2, 1)>>} ] }
     \cup { Call("search", <<>>, NoRands, NoLookup, s) :
              s \in [ find : {Number(1), Str(<<97>>), Undefined},
                      table : {NoArgument, Str(<<98, 97>>), Vec(<<Number(1)>>)},
                      num_returns_per_match : {NoArgument, Number(0)},
                      index_col_num : {NoArgument} ] }

InitBuiltins ==
  /\ st \in [ call : Calls,
              deterministic_rng : {DefaultSeeded},
              lessdeterministic_rng : 0..(RngMod - 1),
              hardwarnings : BOOLEAN,
              value : {Pending}, warned : {FALSE} ]
  /\ env \in [ diskId : {1}, libTime : {0}, enableHardwarnings : {st.hardwarnings},
               openCSGLimit : {DefaultCeiling} ]

\* the call is evaluated; a warning printed with hardwarnings on ends the evaluation
\* in HardWarningException
CallBuiltin ==
  /\ st.value = Pending
  /\ LET r == callBuiltin(st)
     IN st' = IF PRINT_throws(st, IF r.warning THEN "warning" ELSE "none")
                THEN [st EXCEPT !.value = HardWarning, !.warned = TRUE]
                ELSE [r.state EXCEPT !.value = r.value, !.warned = r.warning]
  /\ UNCHANGED env

SpecBuiltins == InitBuiltins /\ [][CallBuiltin]_vars

(* ------------------- compileCSG: products, renderers ------------------ *)
\* the configured ceilings, the leaves of a term and the number of highlight or
\* background terms range up to
MaxCeiling == 2
MaxLeaves == 5
MaxTerms == 2

\* a term of the term tree with the number of products it flattens to; no term
Term(n) == [present |-> TRUE, leaves |-> n]
NoTerm == [present |-> FALSE, leaves |-> 0]

\* a product collection with its size(); a null pointer
Products(n) == [present |-> TRUE, size |-> n]
NoProducts == [present |-> FALSE, size |-> 0]

\* CSGTreeNormalizer::normalize: null when the count passes the limit
normalize(term, limit) == IF term.leaves > limit THEN NoTerm ELSE term

\* CSGProducts::import of a term that is not null
import(products, nterm) == [products EXCEPT !.size = @ + nterm.leaves]

\* lines 1187-1201: the root term is normalized and imported; the warning of line
\* 1198 is fatal when hardwarnings is on (catch at line 1256)
compileCSG_root(s) ==
  LET limit == 2 * s.openCSGLimit
      nroot == normalize(s.csgRoot, limit)
  IN IF ~s.csgRoot.present THEN [s EXCEPT !.pc = "highlights"]
     ELSE IF nroot.present
       THEN [s EXCEPT !.normalizedRoot = nroot,
                      !.root_products = import(Products(0), nroot),
                      !.pc = "highlights"]
       ELSE [s EXCEPT !.normalizedRoot = NoTerm, !.root_products = NoProducts,
                      !.pc = IF PRINT_throws(s, "warning") THEN "aborted"
                             ELSE "highlights"]

RECURSIVE importAll(_, _, _, _)
\* the loops of lines 1209-1212 and 1224-1227 from term i on: every term is
\* normalized and handed to import.  A null term is dereferenced by import: the
\* loop ends there by a crash, or goes on with nothing added.
importAll(terms, i, limit, crash) ==
  IF i > Len(terms) THEN [products |-> Products(0), nullImport |-> FALSE, crashed |-> FALSE]
  ELSE LET nterm == normalize(Term(terms[i]), limit) IN
       IF ~nterm.present /\ crash
         THEN [products |-> Products(0), nullImport |-> TRUE, crashed |-> TRUE]
         ELSE LET rest == importAll(terms, i + 1, limit, crash) IN
              [products |-> IF nterm.present THEN import(rest.products, nterm)
                            ELSE rest.products,
               nullImport |-> rest.nullImport \/ ~nterm.present,
               crashed |-> rest.crashed]

\* lines 1203-1216
compileCSG_highlights(s, crash) ==
  LET r == importAll(s.highlight_terms, 1, 2 * s.openCSGLimit, crash) IN
  IF Len(s.highlight_terms) > 0
    THEN [s EXCEPT !.highlights_products = r.products,
                   !.nullImport = @ \/ r.nullImport,
                   !.pc = IF r.crashed THEN "crashed" ELSE "background"]
    ELSE [s EXCEPT !.highlights_products = NoProducts, !.pc = "background"]

\* lines 1218-1231
compileCSG_background(s, crash) ==
  LET r == importAll(s.background_terms, 1, 2 * s.openCSGLimit, crash) IN
  IF Len(s.background_terms) > 0
    THEN [s EXCEPT !.background_products = r.products,
                   !.nullImport = @ \/ r.nullImport,
                   !.pc = IF r.crashed THEN "crashed" ELSE "renderers"]
    ELSE [s EXCEPT !.background_products = NoProducts, !.pc = "renderers"]

\* seeded fault: the OpenCSG renderer is created whatever the size of root_products
compileCSG_renderers_always(s) ==
  [s EXCEPT !.opencsgRenderer = TRUE, !.thrownTogetherRenderer = TRUE, !.pc = "done"]

\* lines 1233-1254
compileCSG_renderers(s) ==
  IF s.root_products.present /\ s.root_products.size > s.openCSGLimit
    THEN [s EXCEPT !.uiWarning = TRUE, !.thrownTogetherRenderer = TRUE, !.pc = "done"]
    ELSE [s EXCEPT !.opencsgRenderer = TRUE, !.thrownTogetherRenderer = TRUE,
                   !.pc = "done"]

\* compileCSG has built the term tree of a freshly instantiated design (the
\* renderers and the root products were removed by instantiateRoot) and comes to
\* the normalization
InitProducts ==
  /\ LET SeqUpTo(S, n) == UNION { [1..k -> S] : k \in 0..n }
         TermSizes == {1, MaxLeaves}
     IN st \in [ pc : {"normalize"},
                 hardwarnings : BOOLEAN,
                 openCSGLimit : 1..MaxCeiling,
                 csgRoot : {NoTerm} \cup { Term(n) : n \in 0..MaxLeaves },
                 highlight_terms : SeqUpTo(TermSizes, MaxTerms),
                 background_terms : SeqUpTo(TermSizes, MaxTerms),
                 normalizedRoot : {NoTerm},
                 root_products : {NoProducts},
                 highlights_products : {NoProducts},
                 background_products : {NoProducts},
                 opencsgRenderer : {FALSE},
                 thrownTogetherRenderer : {FALSE},
                 uiWarning : {FALSE},
                 nullImport : {FALSE} ]
  /\ env \in [ diskId : {1}, libTime : {0}, enableHardwarnings : {st.hardwarnings},
               openCSGLimit : {DefaultCeiling} ]

NormalizeRoot ==
  /\ st.pc = "normalize"
  /\ st' = compileCSG_root(st)
  /\ UNCHANGED env

CompileHighlights ==
  /\ st.pc = "highlights"
  /\ \E crash \in BOOLEAN : st' = compileCSG_highlights(st, crash)
  /\ UNCHANGED env

CompileBackground ==
  /\ st.pc = "background"
  /\ \E crash \in BOOLEAN : st' = compileCSG_background(st, crash)
  /\ UNCHANGED env

CreateRenderers ==
  /\ st.pc = "renderers"
  /\ st' = compileCSG_renderers(st)
  /\ UNCHANGED env

SpecProducts ==
  InitProducts
    /\ [][NormalizeRoot \/ CompileHighlights \/ CompileBackground \/ CreateRenderers]_vars

(* ------------------- consoleOutput, compile result -------------------- *)
\* messages emitted in one cycle
MaxMsgs == 2

\* the beginnings of a message that consoleOutput tells apart; "" is any other text
Prefixes ==
  { "WARNING:", "DEPRECATED:", "UI-WARNING:", "FONT-WARNING:", "EXPORT-WARNING:",
    "ERROR:", "EXPORT-ERROR:", "UI-ERROR:", "PARSER-ERROR:", "TRACE:", "" }

\* consoleOutput(const QString &msg), lines 2908-2936
consoleOutput(s, prefix) ==
  IF prefix \in {"WARNING:", "DEPRECATED:"} THEN [s EXCEPT !.compileWarnings = @ + 1]
  ELSE IF prefix \in {"UI-WARNING:", "FONT-WARNING:", "EXPORT-WARNING:"} THEN s
  ELSE IF prefix = "ERROR:" THEN [s EXCEPT !.compileErrors = @ + 1]
  ELSE s

\* compile(), lines 904-910, with the flags of the call
compile_begin(s, reload, forcedone) ==
  [s EXCEPT !.compileErrors = 0, !.compileWarnings = 0,
            !.reload = reload, !.forcedone = forcedone, !.pc = "compile"]

\* updateCompileResult() with showWarningsIn3dView on: the frame is hidden, or
\* shows the error text, or the text with the number of warnings
updateCompileResult(s) ==
  IF s.compileErrors = 0 /\ s.compileWarnings = 0
    THEN [s EXCEPT !.frameCompileResult = "hidden"]
  ELSE IF s.compileErrors > 0
    THEN [s EXCEPT !.frameCompileResult = "error"]
    ELSE [s EXCEPT !.frameCompileResult = "warnings",
                   !.labelWarnings = s.compileWarnings]

\* nothing is in flight; the counters and the frame are as some earlier cycle left
\* them.  log, the messages sent since the lock was taken, is history.
InitConsole ==
  /\ st \in [ pc : {"idle"}, reload : {FALSE}, forcedone : {FALSE},
              compileErrors : {0, 1}, compileWarnings : {0, 1},
              frameCompileResult : {"hidden"}, labelWarnings : {0},
              log : {<<>>} ]
  /\ env \in [ diskId : {1}, libTime : {0}, enableHardwarnings : {FALSE},
               openCSGLimit : {DefaultCeiling} ]

\* actionRenderPreview / actionReloadRenderPreview take the lock and call compile
StartCycle ==
  /\ st.pc = "idle"
  /\ \E reload \in BOOLEAN :
       st' = compile_begin([st EXCEPT !.log = <<>>], reload, FALSE)
  /\ UNCHANGED env

\* a message of the parse, of handleDependencies or of the instantiation reaches
\* the console
EmitMessage ==
  /\ st.pc \in {"compile", "waiting", "instantiate"}
  /\ Len(st.log) < MaxMsgs
  /\ \E prefix \in Prefixes :
       st' = [consoleOutput(st, prefix) EXCEPT !.log = Append(@, prefix)]
  /\ UNCHANGED env

\* compile(), lines 973-983: a reload that compiled something and has external
\* files starts waitAfterReloadTimer; otherwise compileDone(didcompile | forcedone)
\* instantiates, or ends the cycle when nothing changed
CompileReturns ==
  /\ st.pc = "compile"
  /\ \E didcompile \in BOOLEAN, external \in BOOLEAN :
       st' = IF st.reload /\ didcompile /\ external THEN [st EXCEPT !.pc = "waiting"]
             ELSE IF didcompile \/ st.forcedone THEN [st EXCEPT !.pc = "instantiate"]
             ELSE [st EXCEPT !.pc = "idle"]
  /\ UNCHANGED env

\* waitAfterReload(), lines 989-1002: the timestamp is stable, compile(true, true)
WaitAfterReloadCompiles ==
  /\ st.pc = "waiting"
  /\ st' = compile_begin(st, TRUE, TRUE)
  /\ UNCHANGED env

\* compileDone(), lines 1051-1055: instantiateRoot has returned
ShowCompileResult ==
  /\ st.pc = "instantiate"
  /\ st' = [updateCompileResult(st) EXCEPT !.pc = "shown"]
  /\ UNCHANGED env

\* the continuation slot has run and compileEnded has released the lock
EndCycle ==
  /\ st.pc = "shown"
  /\ st' = [st EXCEPT !.pc = "idle", !.reload = FALSE, !.forcedone = FALSE]
  /\ UNCHANGED env

SpecConsole ==
  InitConsole
    /\ [][StartCycle \/ EmitMessage \/ CompileReturns \/ WaitAfterReloadCompiles
            \/ ShowCompileResult \/ EndCycle]_vars

(* ------------------------------- claims ------------------------------- *)
\* the orchestrator is Idle: the main thread is in the event loop and the lock is free
Idle(s) == s.pc \in {"loop", "done"} /\ ~GuiLocker_isLocked(s)

\* C1 (as amended): a request issued while the lock is held starts no compile and
\* does not touch the pass in flight: actionRender and actionReloadRenderPreview
\* change nothing at all, actionRenderPreview changes only its static flag
\* preview_requested.  That flag is acted on: a zero-delay single-shot timer for
\* actionRenderPreview is started exactly when an actionRenderPreview handler returns
\* from compile() with the flag set, i.e. a preview request rejected during a preview
\* pass is issued again after that pass.
C1_RejectedRequest ==
  [][ /\ GuiLocker_isLocked(st) =>
          /\ actionRender(st) = st
          /\ \A in \in ParseInputs : actionReloadRenderPreview(st, env, in) = st
          /\ actionRenderPreview(st) = [st EXCEPT !.preview_requested = TRUE]
      /\ (st'.singleShot > st.singleShot) <=>
            (st.frame = "preview" /\ st'.frame = "none" /\ st.preview_requested)
    ]_vars

\* C1 witness: a preview request has been rejected while an actionRenderPreview pass
\* holds the lock
C1_Witness ==
  GuiLocker_isLocked(st) /\ st.frame = "preview" /\ st.preview_requested

\* C1 as stated: a rejected request is not queued or issued again later, so no
\* single-shot timer for actionRenderPreview is ever pending
C1_NeverReissued == st.singleShot = 0

\* C2 as stated: unlock is never executed while gui_locked is 0, so the counter is
\* 0 or 1 in every state and never wraps
C2_ReleasedExactlyOnce == st.gui_locked \in {U32Zero, U32One}

\* C3 as stated: whenever the lock is held, the orchestrator eventually is Idle again
\* with the lock released
C3_ReturnsToIdle == GuiLocker_isLocked(st) ~> Idle(st)

\* C4 (as amended): at Idle the term tree, the normalized tree and root_products, when
\* present, belong to the pass that produced root_node, and root_products is there
\* exactly when normalizedRoot is.  root_node may be there without them, and
\* highlights_products / background_products may be left from an earlier pass.
C4_IdleArtifacts ==
  Idle(st) =>
    /\ Present(st.csgRoot) => st.root_node = st.csgRoot
    /\ Present(st.normalizedRoot) => st.csgRoot = st.normalizedRoot
    /\ st.root_products = st.normalizedRoot

\* C4 witness: a preview pass has ended with a node tree, term tree and products
C4_Witness ==
  Idle(st) /\ st.pc = "done" /\ st.root_node = "built" /\ st.root_products = "built"

\* no compiled tree at all
NoTree(s) ==
  \A f \in ArtifactFields \ {"root_geom"} : ~Present(s[f])

\* one complete triple of one pass
CompleteTriple(s) ==
  /\ Present(s.root_node)
  /\ \A f \in {"csgRoot", "normalizedRoot", "root_products"} : s[f] = s.root_node
  /\ \A f \in {"highlights_products", "background_products"} :
        Present(s[f]) => s[f] = s.root_node

\* C4 as stated: at Idle there is no compiled tree at all, or exactly one complete
\* triple produced by one pass
C4_NoneOrCompleteTriple == Idle(st) => NoTree(st) \/ CompleteTriple(st)

\* C5 (as amended): nothing is restored after a cancellation.  When the CSG build of
\* a pass was cancelled, the pass ends with the node tree of that pass and without
\* term tree, normalized tree and root products; when the worker run was cancelled,
\* the pass ends with the node tree of that pass and without a rendered solid.
C5_AfterCancel ==
  st.pc = "done" =>
    /\ st.cyc.cancelled = "csg" =>
          /\ st.root_node = "built"
          /\ ~Present(st.csgRoot) /\ ~Present(st.normalizedRoot)
          /\ ~Present(st.root_products)
    /\ st.cyc.cancelled = "worker" =>
          st.root_node = "built" /\ ~Present(st.root_geom)

\* C5 witness: a cancelled CSG build has ended and the products of the last good
\* compile are gone
C5_Witness ==
  st.pc = "done" /\ st.cyc.cancelled = "csg" /\ st.root_products = "dropped"

\* C5 as stated: after a cancellation every artifact is the one of the previous Idle
C5_CancelRestores ==
  (st.pc = "done" /\ st.cyc.cancelled # "no") =>
    \A f \in ArtifactFields : st[f] \in {"none", "kept"}

\* C6 (as amended): the preview paths run compileCSG before the pass ends whenever
\* the pass produced a node tree; the full-render path starts the worker without
\* running compileCSG.
C6_CsgOnlyForPreview ==
  /\ st.cgalworker = "running" => (st.afterCompileSlot = "cgalRender" /\ ~st.cyc.csg)
  /\ (st.pc = "done" /\ st.afterCompileSlot # "cgalRender" /\ st.root_node = "built")
       => st.cyc.csg

\* C6 witness: the worker runs for a pass that dropped the term tree of the previous
\* pass and built none
C6_Witness == st.cgalworker = "running" /\ st.csgRoot = "dropped"

\* C6 as stated: compileCSG has run in every pass that starts the worker
C6_CsgBeforeWorker == st.cgalworker = "running" => st.cyc.csg

\* the checkpoint "parsed" of a reload compile of a design with external files in
\* which the document was re-parsed or the dependencies show a newer timestamp
Recompiled(s, e) ==
  /\ s.pc = "parsed" /\ s.reload /\ s.root_module = "ext"
  /\ (s.didcompile \/ e.libTime > s.deps_mtime)

\* the event loop while the waitAfterReload timer is started
Polling(s) == s.pc = "loop" /\ s.waitAfterReloadTimer

\* C7 (as amended): a reload compile of a design with external files that re-parsed
\* the document or saw a newer dependency timestamp does not instantiate: it keeps
\* the lock and starts the waitAfterReload timer, unless a warning was latched while
\* warnings are fatal, in which case it aborts and releases the lock, also without
\* instantiating.  While polling the lock stays held and nothing is instantiated;
\* the timer stays started until compile is entered again, which happens only on a
\* tick that sees no newer timestamp.
C7_WaitsForDependencies ==
  [][ /\ (Recompiled(st, env) /\ st'.pc # "parsed") =>
          /\ st'.cyc.inst = st.cyc.inst
          /\ \/ Polling(st') /\ GuiLocker_isLocked(st')
             \/ st'.pc = "done" /\ st.hardwarnings /\ ~GuiLocker_isLocked(st')
      /\ Polling(st) =>
          /\ GuiLocker_isLocked(st') /\ st'.cyc.inst = st.cyc.inst
          /\ Polling(st') \/ st'.pc = "parsed"
          /\ st'.pc = "parsed" => ~(handleDependencies(st, env) > st.deps_mtime)
    ]_vars

\* C7 witness: the orchestrator polls after a tick that raised deps_mtime
C7_Witness ==
  Polling(st) /\ GuiLocker_isLocked(st) /\ st.deps_mtime > 0 /\ st.cyc.reparsed

\* C7 as stated: such a compile always keeps the lock and polls
C7_AlwaysPolls ==
  [][ (Recompiled(st, env) /\ st'.pc # "parsed") =>
        (Polling(st') /\ GuiLocker_isLocked(st')) ]_vars

\* C8 as stated: a tick of waitAfterReload that sees no newer timestamp leaves the
\* polling loop, whatever was printed: the timer is never started again by such a tick
C8_LeavesLoopWhenStable == st.cyc.polls = 0

\* C9: a reload pass (reload, not forcedone) that found the active file unchanged,
\* no newer include, no newer dependency and a compiled document does not re-parse,
\* does not instantiate and ends with every artifact being the one it started with.
C9_QuietReloadIsNoOp ==
  (st.pc = "done" /\ st.cyc.quiet) =>
    /\ ~st.cyc.reparsed /\ ~st.cyc.inst /\ ~st.cyc.csg
    /\ \A f \in ArtifactFields : st[f] \in {"none", "kept"}

\* C9 witness: such a pass has ended on a design that was previewed before
C9_Witness == st.pc = "done" /\ st.cyc.quiet /\ st.root_products = "kept"

\* a step that enters compile() with reload = true
ReloadCompile == st.pc = "loop" /\ st'.pc = "parsed" /\ st'.reload

\* C10 (as amended): a reload compile re-parses the document exactly when the id of
\* the active file differs from the cached one and the reload is not declined (the
\* editor is modified and the user answers No, which unchecks automatic reload), or
\* last_compiled_doc is empty, or includesChanged() exceeds includes_mtime; a failed
\* earlier parse alone causes no re-parse.
C10_ReparseCondition ==
  [][ ReloadCompile =>
        LET changed == env.diskId # st.autoReloadId
            never == st.last_compiled_doc = ""
            newer == st.parsed_module # NullModule
                     /\ includesChanged(st, env) > st.includes_mtime
        IN /\ (never \/ newer) => st'.didcompile
           /\ st'.didcompile => (changed \/ never \/ newer)
           /\ (changed /\ ~st'.didcompile) => ~st'.designActionAutoReload
           /\ changed => st'.autoReloadId = env.diskId
    ]_vars

\* C10 witness: a reload compile has not re-parsed although the last parse failed
C10_Witness ==
  /\ st.pc = "parsed" /\ st.reload /\ ~st.didcompile
  /\ st.root_module = NullModule /\ st.last_compiled_doc # ""

\* C10 as stated: a reload compile re-parses whenever the file changed on disk or no
\* successfully parsed module exists
C10_ReparseWhenChangedOrFailed ==
  [][ (ReloadCompile /\ (env.diskId # st.autoReloadId \/ st.root_module = NullModule))
        => st'.didcompile ]_vars

\* a tick of waitAfterReload that latched a warning and saw no newer timestamp
LatchedTick == st.pc = "loop" /\ st'.cyc.polls > st.cyc.polls

\* C11 as stated: with hard warnings enabled, a warning latched during the parse /
\* dependency step of compile or of waitAfterReload aborts the pass at the end of
\* that step: the lock is released, nothing is instantiated and no artifact changes
C11_LatchedWarningAborts ==
  [][ ((st.pc = "parsed" /\ st.deferred /\ st'.pc # "parsed") \/ LatchedTick) =>
        /\ ~GuiLocker_isLocked(st') /\ st'.pc = "done"
        /\ st'.cyc.inst = st.cyc.inst
        /\ \A f \in ArtifactFields : st'[f] = st[f]
    ]_vars

\* the part of C11 that is about compile(): the latched warning of the parse
C11_CompileAborts ==
  [][ (st.pc = "parsed" /\ st.deferred /\ st'.pc # "parsed") =>
        /\ ~GuiLocker_isLocked(st') /\ st'.pc = "done"
        /\ st'.cyc.inst = st.cyc.inst
        /\ \A f \in ArtifactFields : st'[f] = st[f]
    ]_vars

\* C12: while a worker invocation is outstanding the lock is held by the full-render
\* cycle that started it and the main thread rests in the event loop: every step
\* taken in that interval either delivers the done event (actionRenderDone, which
\* ends the cycle) or leaves the main thread in the event loop with the lock held,
\* so that no compile / render cycle begins and cgalworker->start, which is called
\* only by cgalRender inside a cycle, is not called again.
C12_OneWorkerOutstanding ==
  [][ st.cgalworker = "running" =>
        /\ GuiLocker_isLocked(st) /\ st.pc = "loop" /\ st.frame = "none"
        /\ st.afterCompileSlot = "cgalRender"
        /\ \/ st'.cgalworker = "running" /\ st'.pc = "loop" /\ st'.frame = "none"
              /\ st'.gui_locked = st.gui_locked /\ st'.cyc = st.cyc
           \/ st'.cgalworker = "idle" /\ st'.pc = "done"
    ]_vars

\* C12 witness: a preview request was rejected while the worker was running
C12_Witness == st.cgalworker = "running" /\ st.preview_requested

\* C13 as stated: while a worker invocation is outstanding no step of the main thread
\* changes the contents of the geometry caches
C13_CachesUntouchedWhileRendering ==
  [][ (st.cgalworker = "running" /\ st'.cgalworker = "running") =>
        st'.cache = st.cache ]_vars

\* C14 as stated: a worker run in which cancellation was requested ends with a done
\* event that carries no solid, and the caches hold after the event what they held
\* when the run was started
C14_CancelLeavesCaches ==
  (st.pc = "done" /\ st.cyc.cancelled = "worker") =>
    /\ st.cgalworker = "idle" /\ ~Present(st.root_geom)
    /\ st.cache = st.cyc.cacheAtStart

\* C15 (as amended): at a cooperative checkpoint the handlers that run nested never
\* see a term tree, normalized tree or root product collection of the pass in
\* flight.  At the checkpoints of the request handler and of compile() every
\* artifact is the one the previous pass left; at the checkpoint of instantiateRoot
\* node tree, term tree, normalized tree and root products are all absent; at the
\* checkpoint of compileCSG (report_func) the node tree of the pass is there and
\* term tree, normalized tree and root products are absent.  Highlight and
\* background products are at every checkpoint the ones the previous pass left.
C15_CheckpointArtifacts ==
  st.chk =>
    /\ st.pc \in {"entry", "parsed", "inst", "csg"}
    /\ st.pc \in {"entry", "parsed"} =>
          \A f \in ArtifactFields : st[f] \in {"none", "kept"}
    /\ st.pc \in {"inst", "csg"} =>
          /\ \A f \in {"csgRoot", "normalizedRoot", "root_products"} : ~Present(st[f])
          /\ \A f \in {"highlights_products", "background_products"} :
                st[f] \in {"none", "kept"}
    /\ st.pc = "inst" => ~Present(st.root_node)
    /\ st.pc = "csg" => st.root_node = "built"

\* C15 witness: at the checkpoint of compileCSG the node tree of the pass in flight is
\* visible together with the highlight products of the previous pass
C15_Witness ==
  st.chk /\ st.pc = "csg" /\ st.root_node = "built" /\ st.highlights_products = "kept"

\* C15 as stated: at every checkpoint the visible state is empty or one complete
\* triple
C15_EmptyOrCompleteAtCheckpoint == st.chk => (NoTree(st) \/ CompleteTriple(st))

\* C16 as stated: a pass that instantiated holds, when it ends, no node tree, term
\* tree, normalized tree or product collection (root, highlight, background) that an
\* earlier pass built
C16_NothingOfEarlierPassHeld ==
  (st.pc = "done" /\ st.cyc.inst) =>
    \A f \in ArtifactFields \ {"root_geom"} : st[f] # "kept"

\* the pass built a term tree and the normalizer returned null for it
NormalizedToNothing(s) ==
  s.cyc.csg /\ s.csgRoot = "built" /\ ~Present(s.normalizedRoot)

\* C17 (as amended): when normalize returns null for the root term, the pass ends
\* without root products (nothing partial is imported) and with the node tree and
\* the term tree of the pass.  With hard warnings off the pass goes on to build the
\* highlight and background products of the pass and ends Idle; with hard warnings
\* on the warning aborts compileCSG, the highlight and background products are
\* the ones left by the previous pass, and the lock counter has been decremented
\* twice.
C17_EmptyNormalization ==
  (st.pc = "done" /\ NormalizedToNothing(st)) =>
    /\ ~Present(st.root_products) /\ st.root_node = "built"
    /\ \A f \in {"highlights_products", "background_products"} :
          IF st.hardwarnings THEN st[f] \in {"none", "kept"} ELSE st[f] # "kept"
    /\ IF st.hardwarnings THEN st.gui_locked = U32Max ELSE Idle(st)

\* C17 witness: such a pass has ended with highlight products of its own
C17_Witness ==
  /\ st.pc = "done" /\ NormalizedToNothing(st)
  /\ ~st.hardwarnings /\ st.highlights_products = "built"

\* C17 as stated: after such a pass the orchestrator is Idle and holds no compiled
\* geometry: no root, highlight or background products
C17_NoGeometryAfterOverflow ==
  (st.pc = "done" /\ NormalizedToNothing(st)) =>
    /\ Idle(st)
    /\ \A f \in {"root_products", "highlights_products", "background_products"} :
          ~Present(st[f])

\* twice a 32-bit value, exactly, as a size_t
ExactlyTwice(x) ==
  LET lo == 2 * x[2]
      hi == 2 * x[1] + (lo \div LimbRange)
  IN <<hi \div LimbRange, hi % LimbRange, lo % LimbRange>>

\* C18 as stated: the limit handed to the normalizer is exactly twice the stored
\* ceiling, for every ceiling an unsigned int can hold
C18_LimitIsTwiceCeiling ==
  st.cyc.csg /\ st.pc = "done" => st.normalizelimit = ExactlyTwice(env.openCSGLimit)

\* C19 as stated: within one run the values report_func sends to the progress widget
\* never decrease and never reach 1000
C19_ProgressMonotone ==
  /\ \A i \in 1..Len(st.sent) : st.sent[i] < 1000
  /\ \A i, j \in 1..Len(st.sent) : i < j => st.sent[i] <= st.sent[j]

\* the part of C19 about a run on the main thread, and the cap in every run
C19_MainThreadMonotone ==
  /\ \A i \in 1..Len(st.sent) : st.sent[i] < 1000
  /\ st.thread = "main" =>
       \A i, j \in 1..Len(st.sent) : i < j => st.sent[i] < st.sent[j]

\* the script's result does not depend on lessdeterministic_rng: rands is given a
\* seed, or draws nothing, or its range is a single finite point, or it returns undef
IndependentOfTime(a) ==
  \/ a.seed.type # "none"
  \/ a.min.type # "number" \/ a.max.type # "number" \/ a.n.type # "number"
  \/ a.n.num = 0 \/ (a.min.num = a.max.num /\ ~isinf(a.min.num))

\* C20 (as amended): two runs on an unchanged script yield the same rands vector
\* when rands is called with a seed (deterministic_rng is seeded anew in every
\* call), asks for no results, has min = max, or returns undef; a run never changes
\* what the script passes.
C20_SeededRunsRepeat ==
  (st.second # Pending /\ IndependentOfTime(st.args)) => st.first = st.second

\* C20 witness: both runs of a seeded rands over a proper range are done
C20_Witness ==
  /\ st.second # Pending /\ st.args.seed.type = "number"
  /\ st.second.type = "vector" /\ Len(st.second.vec) = 2
  /\ st.args.min.num # st.args.max.num

\* C20 as stated: two runs on an unchanged script yield identical results for
\* every script, rands without a seed included
C20_RunsRepeat == st.second # Pending => st.first = st.second

\* what an export or validity request must leave as it is: the solid, the node tree,
\* the term trees and product collections, and the lock counter
SameDesign(s, t) ==
  /\ \A f \in ArtifactFields : t[f] = s[f]
  /\ t.gui_locked = s.gui_locked

WellFormedLookup(a) ==
  /\ a.numArgs = 2 /\ a.p.type = "number" /\ a.table # <<>>
  /\ \A i \in 1..Len(a.table) : a.table[i].type = "vec2"

KeysOf(tab) == { tab[i].k : i \in 1..Len(tab) }

\* min key <= p <= max key
InKeyRange(a) ==
  /\ \E k \in KeysOf(a.table) : k <= a.p.num
  /\ \E k \in KeysOf(a.table) : k >= a.p.num

\* the greatest key <= p and the least key >= p
KeyBelow(a) ==
  CHOOSE k \in KeysOf(a.table) :
    k <= a.p.num /\ \A k2 \in KeysOf(a.table) : k2 <= a.p.num => k2 <= k

KeyAbove(a) ==
  CHOOSE k \in KeysOf(a.table) :
    k >= a.p.num /\ \A k2 \in KeysOf(a.table) : k2 >= a.p.num => k2 >= k

RowsWith(tab, k) == { tab[i] : i \in { j \in 1..Len(tab) : tab[j].k = k } }

FirstRowWith(tab, k) ==
  tab[CHOOSE i \in 1..Len(tab) : tab[i].k = k /\ \A j \in 1..(i - 1) : tab[j].k # k]

DistinctKeys(tab) == \A i, j \in 1..Len(tab) : tab[i].k = tab[j].k => i = j

\* v_lo + (v_hi - v_lo) * (p - k_lo) / (k_hi - k_lo), the row's value when the keys
\* coincide; in units of 1 / LookupUnit
Interpolation(lo, hi, x) ==
  IF lo.k = hi.k THEN Number(lo.v * LookupUnit)
  ELSE Number(lo.v * LookupUnit
              + ((hi.v - lo.v) * (x - lo.k) * LookupUnit) \div (hi.k - lo.k))

\* C22: for a finite p and a table of 2-number rows with min key <= p <= max key,
\* lookup returns the linear interpolation between the first row that holds the
\* greatest key <= p and the first row that holds the least key >= p (that row's value
\* when p is a key); when no key occurs twice the result is the same for every order
\* of the rows.
C22_InterpolatesFirstBracket ==
  (st.value # Pending /\ WellFormedLookup(st.args) /\ InKeyRange(st.args)) =>
    /\ st.value = Interpolation(FirstRowWith(st.args.table, KeyBelow(st.args)),
                                FirstRowWith(st.args.table, KeyAbove(st.args)),
                                st.args.p.num)
    /\ DistinctKeys(st.args.table) => st.value = st.orig

\* p lies strictly between two keys of a table of three rows whose first row is on
\* the far side of p, the rows have changed places, and lookup has returned
C22_Witness ==
  /\ st.value # Pending /\ st.reordered
  /\ WellFormedLookup(st.args) /\ InKeyRange(st.args)
  /\ Len(st.args.table) = 3 /\ DistinctKeys(st.args.table)
  /\ st.args.p.num \notin KeysOf(st.args.table)
  /\ st.args.table[1].k > KeyAbove(st.args)
  /\ st.value # Number(st.args.table[1].v * LookupUnit)

\* C22 as stated: the interpolation between a tightest bracketing pair, whatever the
\* order of the rows
C22_InterpolatesAnyOrder ==
  (st.value # Pending /\ WellFormedLookup(st.args) /\ InKeyRange(st.args)) =>
    /\ \E lo \in RowsWith(st.args.table, KeyBelow(st.args)),
          hi \in RowsWith(st.args.table, KeyAbove(st.args)) :
         st.value = Interpolation(lo, hi, st.args.p.num)
    /\ st.value = st.orig

\* C23: for p below every key lookup returns the value of the (first) row with the
\* smallest key, for p above every key the value of the (first) row with the largest
\* key, wherever in the table that row stands.
C23_ClampsOutside ==
  (st.value # Pending /\ WellFormedLookup(st.args)) =>
    LET tab == st.args.table
        x == st.args.p.num
        least == CHOOSE k \in KeysOf(tab) : \A k2 \in KeysOf(tab) : k <= k2
        most == CHOOSE k \in KeysOf(tab) : \A k2 \in KeysOf(tab) : k >= k2
    IN /\ x < least => st.value = Number(FirstRowWith(tab, least).v * LookupUnit)
       /\ x > most => st.value = Number(FirstRowWith(tab, most).v * LookupUnit)
       /\ (x < least /\ Cardinality(RowsWith(tab, least)) = 1) => st.value = st.orig
       /\ (x > most /\ Cardinality(RowsWith(tab, most)) = 1) => st.value = st.orig

\* p is above every key, the row with the largest key is neither the first nor the
\* last row and differs in value from both, and lookup has returned
C23_Witness ==
  /\ st.value # Pending /\ st.reordered
  /\ WellFormedLookup(st.args) /\ Len(st.args.table) = 3
  /\ \A k \in KeysOf(st.args.table) : st.args.p.num > k
  /\ \A i \in {1, 3} : /\ st.args.table[i].k < st.args.table[2].k
                       /\ st.args.table[i].v # st.args.table[2].v

\* the call search(find, table, ...) as the claims read it: the number of results
\* asked for per match, the column compared, the number of elements of the search
\* input, and the set of 0-based positions of the table that element i matches
ReturnsPerMatch(a) ==
  IF a.num_returns_per_match = NoArgument THEN 1 ELSE a.num_returns_per_match.num

ColumnOf(a) == IF a.index_col_num = NoArgument THEN 0 ELSE a.index_col_num.num

ElementsOf(a) ==
  IF a.find.type = "string" THEN Len(a.find.str)
  ELSE IF a.find.type = "vector" THEN Len(a.find.vec) ELSE 1

MatchesOf(a, i) ==
  IF a.find.type = "string" /\ a.table.type = "string"
    THEN { j \in 0..(Len(a.table.str) - 1) : a.table.str[j + 1] = a.find.str[i] }
  ELSE IF a.find.type = "string"
    THEN { j \in 0..(Len(toVectorPtr(a.table)) - 1) :
             firstCodePoint(toVectorPtr(toVectorPtr(a.table)[j + 1])[ColumnOf(a) + 1])
               = a.find.str[i] }
  ELSE { j \in 0..(Len(toVectorPtr(a.table)) - 1) :
           matchesEntry(IF a.find.type = "vector" THEN a.find.vec[i] ELSE a.find,
                        toVectorPtr(a.table)[j + 1], ColumnOf(a)) }

\* search is called with a table and a number, string or vector to find, every row
\* of a vector table searched for a string has the column compared, and the call
\* has returned a list
Searched(s) ==
  /\ s.args.table # NoArgument
  /\ s.args.find.type \in {"number", "string", "vector"}
  /\ (s.args.find.type = "string" /\ s.args.table.type # "string") =>
       \A j \in 1..Len(toVectorPtr(s.args.table)) :
         Len(toVectorPtr(toVectorPtr(s.args.table)[j])) > ColumnOf(s.args)
  /\ s.value.type = "vector"

\* the least element of a non-empty set of numbers
Least(S) == CHOOSE x \in S : \A y \in S : x <= y

\* the first cap elements of S in ascending order, all of them when cap is 0
Ascending(S, cap) ==
  LET RECURSIVE Asc(_, _)
      Asc(R, k) == IF R = {} \/ (cap > 0 /\ k >= cap) THEN <<>>
                   ELSE <<Number(Least(R))>> \o Asc(R \ {Least(R)}, k + 1)
  IN Asc(S, 0)

\* the first-match indices of the elements of the search input that have a match, in
\* input order
FirstMatches(a) ==
  LET f[i \in 0..ElementsOf(a)] ==
        IF i = 0 THEN <<>>
        ELSE f[i - 1] \o (IF MatchesOf(a, i) = {} THEN <<>>
                          ELSE <<Number(Least(MatchesOf(a, i)))>>)
  IN f[ElementsOf(a)]

IsIndex(e) == e.type = "number"

C25_ListPerElement ==
  (Searched(st) /\ ReturnsPerMatch(st.args) # 1
     /\ st.args.find.type \in {"string", "vector"}) =>
    /\ Len(st.value.vec) = ElementsOf(st.args)
    /\ \A i \in 1..ElementsOf(st.args) :
         st.value.vec[i] = Vec(Ascending(MatchesOf(st.args, i), ReturnsPerMatch(st.args)))

\* a vector of two values was searched with N = 2 in a table of three rows; the first
\* value matches all three rows and the second none, and search has returned
C25_Witness ==
  /\ Searched(st) /\ ReturnsPerMatch(st.args) = 2
  /\ st.args.find.type = "vector" /\ Len(st.args.find.vec) = 2
  /\ Cardinality(MatchesOf(st.args, 1)) = 3 /\ MatchesOf(st.args, 2) = {}
  /\ st.value.vec = <<Vec(<<Number(0), Number(1)>>), Vec(<<>>)>>

\* C26: with num_returns_per_match == 1 and a vector search input, an element
\* without a match appends an empty list, so the returned list has one entry per
\* element; with a string search input a character without a match appends nothing,
\* so the returned list has one entry per character that has a match.
C26_EmptyForVectorOnly ==
  (Searched(st) /\ ReturnsPerMatch(st.args) = 1) =>
    LET unmatched == { i \in 1..ElementsOf(st.args) : MatchesOf(st.args, i) = {} }
    IN /\ st.args.find.type = "vector" =>
            /\ Len(st.value.vec) = ElementsOf(st.args)
            /\ \A i \in unmatched : st.value.vec[i] = Vec(<<>>)
       /\ st.args.find.type = "string" =>
            /\ Len(st.value.vec) = ElementsOf(st.args) - Cardinality(unmatched)
            /\ \A k \in 1..Len(st.value.vec) : IsIndex(st.value.vec[k])

\* a vector of two values of which only the second has a match was searched with
\* num_returns_per_match == 1, and search has returned
C26_Witness ==
  /\ Searched(st) /\ st.args.num_returns_per_match = Number(1)
  /\ st.args.find.type = "vector" /\ Len(st.args.find.vec) = 2
  /\ MatchesOf(st.args, 1) = {} /\ MatchesOf(st.args, 2) # {}
  /\ st.value.vec[1] = Vec(<<>>) /\ IsIndex(st.value.vec[2])

\* C26 as stated: one entry per element of the search input, the empty list for an
\* element without a match
C26_OneEntryPerElement ==
  (Searched(st) /\ st.args.num_returns_per_match = Number(1)
     /\ st.args.find.type \in {"string", "vector"}) =>
    /\ Len(st.value.vec) = ElementsOf(st.args)
    /\ \A i \in 1..ElementsOf(st.args) :
         MatchesOf(st.args, i) = {} => st.value.vec[i] = Vec(<<>>)

\* rands(a, b, n) is called with three numbers, n finite, and has returned
ThreeNumbers(s) ==
  /\ s.args.min.type = "number" /\ s.args.max.type = "number"
  /\ s.args.n.type = "number" /\ ~isinf(s.args.n.num)
  /\ s.args.seed = NoArgument
  /\ s.first \notin {Pending, HardWarning}

\* C27: rands(a, b, n) returns a vector of exactly |n| numbers, each within
\* [min(a,b), max(a,b)]; when a == b every element equals a and a repeated call
\* returns the identical vector.
C27_WithinRequestedRange ==
  ThreeNumbers(st) =>
    LET a == st.args.min.num
        b == st.args.max.num
        lo == IF a < b THEN a ELSE b
        hi == IF a < b THEN b ELSE a
    IN /\ st.first.type = "vector"
       /\ Len(st.first.vec) = Abs(st.args.n.num)
       /\ \A i \in 1..Len(st.first.vec) :
            lo * RngMod <= st.first.vec[i] /\ st.first.vec[i] <= hi * RngMod
       /\ a = b => /\ \A i \in 1..Len(st.first.vec) : st.first.vec[i] = a * RngMod
                   /\ st.second # Pending => st.second = st.first

\* C28: two calls rands(a, b, n, seed) with equal arguments return identical vectors
\* whatever other calls of rands were made between them, and a call without a seed
\* leaves deterministic_rng as it is.
C28_SeededIsolated ==
  /\ (st.second # Pending /\ st.args.seed.type = "number") => st.first = st.second
  /\ \A a \in FiniteCalls :
       a.seed = NoArgument =>
         \A hard \in BOOLEAN :
           evaluate_rands([st EXCEPT !.args = a], hard).state.deterministic_rng
             = st.deterministic_rng

\* both calls of a seeded rands over a proper range are done, with other calls of
\* rands between them
C28_Witness ==
  /\ st.second # Pending /\ st.between /\ st.args.seed.type = "number"
  /\ st.second.type = "vector" /\ Len(st.second.vec) = 2
  /\ st.second.vec[1] # st.second.vec[2]

\* the call has the wrong number of arguments, or an argument of the wrong type
ArgumentError(c) ==
  CASE c.fn = "abs" -> Len(c.args) # 1 \/ c.args[1].type # "number"
    [] c.fn = "ord" -> Len(c.args) # 1 \/ c.args[1].type # "string"
    [] c.fn = "norm" ->
         \/ Len(c.args) # 1 \/ c.args[1].type # "vector"
         \/ \E i \in 1..Len(c.args[1].vec) : c.args[1].vec[i].type # "number"
    [] c.fn = "rands" ->
         \/ c.rands.n = NoArgument
         \/ \E f \in {"min", "max", "n"} : c.rands[f].type # "number"
         \/ c.rands.seed.type = "string"
    [] c.fn = "lookup" -> c.lookup.numArgs # 2 \/ c.lookup.p.type # "number"
    [] c.fn = "search" ->
         \/ c.search.table = NoArgument
         \/ c.search.find.type \notin {"number", "string", "vector"}

\* C29: with warnings not fatal, a call of a built-in with the wrong number of
\* arguments or an argument of the wrong type returns Undefined, prints a warning and
\* changes nothing else (the generators are as before).
C29_ArgumentErrorWarns ==
  (st.value # Pending /\ ~st.hardwarnings /\ ArgumentError(st.call)) =>
    /\ st.value = Undefined
    /\ st.warned
    /\ st.deterministic_rng = DefaultSeeded

\* the parse or handleDependencies of the pass at "parsed" has latched a warning
LatchedIn(s, warned) ==
  would_have_thrown(IF s.root_module # NullModule /\ warned
                      THEN PRINT_deferred(s, "warning") ELSE s)

\* the auto-reload tick that follows the pass ending in state a, the files on disk
\* being as e shows them: it parses nothing and ends without instantiateRoot
NextTickIsQuiet(a, e) ==
  \A in \in ParseInputs :
    LET t == actionReloadRenderPreview(Forget(a), e, in) IN
    /\ ~t.cyc.reparsed
    /\ \A w \in BOOLEAN :
         LET f == compile_finish(t, e, w) IN
         ~f.cyc.inst /\ ~f.waitAfterReloadTimer

\* a reload pass has just come to the end of its parse
ReloadParsed ==
  /\ st.pc = "loop" /\ st'.pc = "parsed" /\ st'.reload /\ st'.hardwarnings
  /\ env' = env

\* C30: with warnings treated as fatal, a reload pass whose parse or dependency
\* handling printed a warning aborts only after both have run, and the auto-reload
\* tick that follows it with the files unchanged neither parses the document again
\* nor instantiates the design.
C30_AbortedPassIsNotResumed ==
  [][ReloadParsed =>
        \A warned \in BOOLEAN :
          LatchedIn(st', warned) =>
            LET a == compile_finish(st', env, warned) IN
            /\ ~a.cyc.inst /\ ~GuiLocker_isLocked(a)
            /\ NextTickIsQuiet(a, env)]_vars

\* a string is searched in a string for the first match of each character
StringInString(s) ==
  /\ s.value # Pending
  /\ s.args.find.type = "string" /\ s.args.table.type = "string"
  /\ ReturnsPerMatch(s.args) = 1

\* C31: for a string searched in a string with num_returns_per_match = 1, a character
\* that does not occur in the searched string contributes nothing: the result holds
\* the first-match index of every character that occurs, in input order, and its
\* length is the number of search characters that have a match.
C31_UnmatchedCharacterIsDropped ==
  StringInString(st) =>
    /\ st.value = Vec(FirstMatches(st.args))
    /\ Len(st.value.vec) =
         Cardinality({ i \in 1..ElementsOf(st.args) : MatchesOf(st.args, i) # {} })

\* a two-character string whose first character does not occur in the non-empty
\* searched string and whose second does was searched with num_returns_per_match
\* given as 1; and a single character that does not occur returned the empty list
C31_Witness ==
  /\ StringInString(st) /\ st.args.num_returns_per_match = Number(1)
  /\ st.args.table.str # <<>>
  /\ \/ /\ Len(st.args.find.str) = 2
        /\ MatchesOf(st.args, 1) = {} /\ MatchesOf(st.args, 2) # {}
        /\ Len(st.value.vec) = 1
     \/ /\ Len(st.args.find.str) = 1 /\ MatchesOf(st.args, 1) = {}
        /\ Len(st.args.table.str) = MaxTable
        /\ st.value = Vec(<<>>)

\* a single character is searched in a table of rows and search has returned a list
CharacterInRows(s) ==
  /\ Searched(s)
  /\ s.args.find.type = "string" /\ Len(s.args.find.str) = 1
  /\ s.args.table.type = "vector"
  /\ s.args.index_col_num = NoArgument

C33_NoNullImport == ~st.nullImport

\* compileCSG has come to its end
Completed(s) == s.pc = "done"

\* C38: when compileCSG has completed, the OpenCSG renderer exists exactly when
\* root_products is null or its size is at most the ceiling; root_products larger
\* than the ceiling (and at most twice the ceiling) are kept, the UI warning is
\* printed and the renderer stays null; the thrown-together renderer exists in
\* both cases.
C38_RendererWithinCeiling ==
  Completed(st) =>
    /\ st.opencsgRenderer <=>
         (~st.root_products.present \/ st.root_products.size <= st.openCSGLimit)
    /\ st.root_products.present => st.root_products.size <= 2 * st.openCSGLimit
    /\ ~st.opencsgRenderer => (st.root_products.present /\ st.uiWarning)
    /\ st.opencsgRenderer => ~st.uiWarning
    /\ st.thrownTogetherRenderer

\* compileCSG has completed with root products of twice the ceiling: they are kept
\* and there is no OpenCSG renderer
C38_Witness ==
  /\ Completed(st)
  /\ st.root_products = Products(2 * st.openCSGLimit)
  /\ ~st.opencsgRenderer /\ st.thrownTogetherRenderer /\ st.uiWarning

\* the step returns from the actionRenderPreview handler that holds the lock
PreviewReturns == st.frame = "preview" /\ st'.frame # "preview"

\* C34: an actionRenderPreview call rejected at the lock sets preview_requested and
\* schedules nothing; the flag stays set for the rest of a preview pass, and
\* when the handler of that pass returns exactly one single-shot actionRenderPreview
\* is scheduled if the flag is set and none otherwise; no other step schedules one,
\* so a preview rejected during a reload cycle or a full render has no follow-up
\* when that cycle ends.
C34_OneFollowUpPerPreviewPass ==
  [][/\ GuiLocker_isLocked(st) =>
          /\ actionRenderPreview(st) = [st EXCEPT !.preview_requested = TRUE]
          /\ st.frame = "preview" => actionRenderPreview(st).frame = "preview"
     /\ (st.frame = "preview" /\ st'.frame = "preview" /\ st.preview_requested)
          => st'.preview_requested
     /\ PreviewReturns =>
          st'.singleShot = st.singleShot + (IF st.preview_requested THEN 1 ELSE 0)
     /\ st'.singleShot > st.singleShot => PreviewReturns]_vars

\* a preview pass during which a preview was requested has returned and its follow-up
\* is scheduled
C34_Witness ==
  st.pc = "done" /\ st.cyc.inst /\ st.preview_requested /\ st.singleShot = 1

\* C36: includes_mtime and deps_mtime never decrease: a step that changes one of them
\* assigns it the timestamp includesChanged() / handleDependencies() returns in that
\* step, which is strictly greater than the value it had; a step that parses the
\* document again resets neither.
C36_WatermarksNeverDecrease ==
  [][/\ st'.includes_mtime >= st.includes_mtime
     /\ st'.deps_mtime >= st.deps_mtime
     /\ st'.includes_mtime # st.includes_mtime =>
          (st'.includes_mtime = includesChanged(st, env)
             /\ st'.includes_mtime > st.includes_mtime)
     /\ st'.deps_mtime # st.deps_mtime =>
          (st'.deps_mtime = handleDependencies(st, env)
             /\ st'.deps_mtime > st.deps_mtime)]_vars

\* both watermarks have been raised, and a later pass has parsed the document again
C36_Witness ==
  /\ st.includes_mtime = MaxTime /\ st.deps_mtime = MaxTime
  /\ st.pc = "parsed" /\ st.cyc.reparsed /\ ~fileChangedOnDisk(st, env)
  /\ st.root_node = "kept"

\* the step takes the lock for a new cycle / ends the cycle by releasing the lock
AcquiresLock == ~GuiLocker_isLocked(st) /\ GuiLocker_isLocked(st')

ReleasesLock == GuiLocker_isLocked(st) /\ st'.gui_locked # st.gui_locked

\* C37: the step in which a cycle takes the lock leaves the auto-reload timer
\* stopped, and after the step in which a cycle ends, through compileEnded or
\* through exceptionCleanup, the timer is running exactly when automatic reload
\* is checked.
C37_TimerFollowsAutoReload ==
  [][/\ AcquiresLock => ~st'.autoReloadTimer
     /\ ReleasesLock => (st'.autoReloadTimer <=> st'.designActionAutoReload)]_vars

\* with automatic reload checked, a reload pass was aborted by a hard warning of its
\* parse or dependency handling, and the timer is running again
C37_Witness ==
  /\ st.pc = "done" /\ st.hardwarnings /\ st.cyc.reparsed /\ ~st.cyc.inst
  /\ ~GuiLocker_isLocked(st)
  /\ st.designActionAutoReload /\ st.autoReloadTimer

\* the number of messages of the log that begin with one of the prefixes P
CountOf(log, P) == Cardinality({ i \in 1..Len(log) : log[i] \in P })

\* C35: when updateCompileResult shows the result of a cycle, compileWarnings is the
\* number of WARNING: and DEPRECATED: messages and compileErrors the number of ERROR:
\* messages sent since the cycle took the lock, the parse of a reload cycle that went
\* through waitAfterReload included; other prefixes are not counted.
C35_ResultCountsWholeCycle ==
  st.pc = "shown" =>
    /\ st.compileWarnings = CountOf(st.log, {"WARNING:", "DEPRECATED:"})
    /\ st.compileErrors = CountOf(st.log, {"ERROR:"})

====
